---- MODULE Spec2Model ----
(***************************************************************************)
(* Model of the theme toolkit's extended-palette generator, of the batch   *)
(* tool that writes generated palettes into theme.yml files, and of the    *)
(* nearest-neighbor validation harness.                                    *)
(*                                                                         *)
(*   scripts/generate_all_extended.py                                      *)
(*     hex_to_rgb, hex_to_hsl, color_distance, extract_features,           *)
(*     generate_extended, load_theme, add_extended_source_marker,          *)
(*     save_theme, main                                                    *)
(*   analysis/extended-palette/generate_extended_palette.py                *)
(*     palette_distance, learn_mapping, apply_mapping, compare_palettes,   *)
(*     main                                                                *)
(*   analysis/extended-palette/generate_extended_rules.py                  *)
(*     compare_palettes                                                    *)
(*   analysis/extended-palette/analyze_decision_boundaries.py              *)
(*     find_base16_match                                                   *)
(*   analysis/extended-palette/analyze_extended_palettes.py                *)
(*     rgb_to_hex                                                          *)
(*                                                                         *)
(* A color is the sequence of the characters of its hex string.  Floating  *)
(* point quantities are kept as exact integers or fractions; comparisons   *)
(* against the decimal thresholds of the rules are done in tenths.         *)
(***************************************************************************)
EXTENDS Integers, Sequences, FiniteSets, TLC

VARIABLES
    gen_in,     \* SpecGen: the base16 argument of the current call
    gen_pc,     \* SpecGen: "ready", "returned" or "raised"
    gen_out,    \* SpecGen: the dict returned by generate_extended
    corpus,     \* SpecBatch: themes/<name>/theme.yml, indexed in sorted-name order
    pc,         \* SpecBatch: position of main(): "idle", "loop" or "done"
    args,       \* SpecBatch: parsed command line of the current run
    idx,        \* SpecBatch: index of the theme the for-loop handles next
    stats,      \* SpecBatch: the stats counters of the current run
    before,     \* SpecBatch: the corpus as it was when the current run started
    writes,     \* SpecBatch: indices of the files opened for writing in this run
    c_pc,       \* SpecConc: per caller, position inside generate_extended
    c_arg,      \* SpecConc: per caller, the base16 argument
    c_feat,     \* SpecConc: per caller, the local variable feat
    c_ext,      \* SpecConc: per caller, the local dict extended
    returned,   \* SpecConc: (argument, returned dict) of every completed call
    fn_arg,     \* function specs: the arguments of the call under way
    fn_pc,      \* function specs: "ready", "returned" or "raised"
    fn_res,     \* function specs: the value returned
    nn_dir,     \* SpecNeighbor: the themes under themes/, in sorted-name order
    nn_themes,  \* SpecNeighbor: themes_with_extended, in insertion order
    nn_pc,      \* SpecNeighbor: position of main(): "load", "loop", "learn", "apply",
                \*   "compare", "done" or "crashed"
    nn_i,       \* SpecNeighbor: index of the test theme the loop handles next
    nn_locals,  \* SpecNeighbor: best_neighbor, best_distance, mapping, predicted
    nn_totals,  \* SpecNeighbor: total_exact, total_close, total_different, total_fields
    nn_misses,  \* SpecNeighbor: the list all_misses
    nn_log,     \* SpecNeighbor: per test theme handled, what the iteration computed
    nn_report   \* SpecNeighbor: the MISSES BY FIELD lines printed, (field, count)

vars == <<gen_in, gen_pc, gen_out, corpus, pc, args, idx, stats, before, writes,
          c_pc, c_arg, c_feat, c_ext, returned,
          fn_arg, fn_pc, fn_res,
          nn_dir, nn_themes, nn_pc, nn_i, nn_locals, nn_totals, nn_misses, nn_log,
          nn_report>>

genVars   == <<gen_in, gen_pc, gen_out>>
batchVars == <<corpus, pc, args, idx, stats, before, writes>>
concVars  == <<c_pc, c_arg, c_feat, c_ext, returned>>
fnVars    == <<fn_arg, fn_pc, fn_res>>
nnVars    == <<nn_dir, nn_themes, nn_pc, nn_i, nn_locals, nn_totals, nn_misses,
               nn_log, nn_report>>

\* the empty dict {}
EmptyDict == <<>>

(***************************************************************************)
(* Characters and strings                                                  *)
(***************************************************************************)
LowerHexDigits == <<"0","1","2","3","4","5","6","7","8","9","a","b","c","d","e","f">>

UpperToLower == [A |-> "a", B |-> "b", C |-> "c", D |-> "d", E |-> "e", F |-> "f"]

\* str.lower() on one character (only the letters that occur in colors)
lower_char(ch) == IF ch \in DOMAIN UpperToLower THEN UpperToLower[ch] ELSE ch

\* str.lower()
lower(s) == [i \in 1..Len(s) |-> lower_char(s[i])]

\* str.lstrip('#'): drops every leading '#'
RECURSIVE lstrip_hash(_)
lstrip_hash(s) ==
    IF s # <<>> /\ Head(s) = "#" THEN lstrip_hash(Tail(s)) ELSE s

\* s[i:j] with Python's 0-based, clamped slice bounds
slice(s, i, j) ==
    LET hi == IF j < Len(s) THEN j ELSE Len(s)
    IN  IF i >= hi THEN <<>> ELSE SubSeq(s, i + 1, hi)

\* the value of each digit of LowerHexDigits
HexValue ==
    ("0" :> 0) @@ ("1" :> 1) @@ ("2" :> 2) @@ ("3" :> 3) @@ ("4" :> 4) @@ ("5" :> 5)
    @@ ("6" :> 6) @@ ("7" :> 7) @@ ("8" :> 8) @@ ("9" :> 9) @@ ("a" :> 10)
    @@ ("b" :> 11) @@ ("c" :> 12) @@ ("d" :> 13) @@ ("e" :> 14) @@ ("f" :> 15)

is_hex_digit(ch) == lower_char(ch) \in DOMAIN HexValue

digit_value(ch) == HexValue[lower_char(ch)]

\* int(s, 16) on the at most two characters of a slice accepts one or two
\* hex digits, a hex digit after a sign, and a hex digit next to a blank
\* (int strips white space); everything else raises ValueError
int16_plain(s) == s # <<>> /\ \A i \in 1..Len(s) : is_hex_digit(s[i])

int16_signed(s) == Len(s) = 2 /\ s[1] \in {"+", "-"} /\ is_hex_digit(s[2])

int16_padded(s) ==
    Len(s) = 2 /\ \/ (s[1] = " " /\ is_hex_digit(s[2]))
                  \/ (is_hex_digit(s[1]) /\ s[2] = " ")

int16_raises(s) == ~(int16_plain(s) \/ int16_signed(s) \/ int16_padded(s))

\* int(s, 16) for the at most two characters of a slice
int16(s) ==
    IF Len(s) = 1 THEN digit_value(s[1])
    ELSE IF s[1] = "-" THEN 0 - digit_value(s[2])
    ELSE IF s[1] \in {"+", " "} THEN digit_value(s[2])
    ELSE IF s[2] = " " THEN digit_value(s[1])
    ELSE 16 * digit_value(s[1]) + digit_value(s[2])

(***************************************************************************)
(* Color math                                                              *)
(***************************************************************************)
\* the three int(hex_color[i:i+2], 16) of hex_to_rgb, on the stripped string
channels_raise(h) == \E i \in {0, 2, 4} : int16_raises(slice(h, i, i + 2))

channels(h) == <<int16(slice(h, 0, 2)), int16(slice(h, 2, 4)), int16(slice(h, 4, 6))>>

hex_to_rgb_raises(hex_color) == channels_raise(lower(lstrip_hash(hex_color)))

hex_to_rgb(hex_color) == channels(lower(lstrip_hash(hex_color)))

Max3(a, b, c) == IF a >= b /\ a >= c THEN a ELSE IF b >= c THEN b ELSE c
Min3(a, b, c) == IF a <= b /\ a <= c THEN a ELSE IF b <= c THEN b ELSE c

\* Pairs (max, min) of channels whose saturation is exactly 69.6 as a
\* fraction but 69.60000000000002 in the float arithmetic of rgb_to_hls.
SatRoundedUp == {<<217, 43>>, <<236, 149>>}

\* colorsys.rgb_to_hls after maxc and minc are known: hue (h * 360) and
\* saturation (s * 100) as fractions n/d with d > 0; `up` marks a float
\* result that lies just above the exact fraction.
hls_of(r, g, b, maxc, minc) ==
    IF minc = maxc
    THEN [hue |-> [n |-> 0, d |-> 1, up |-> FALSE],
          sat |-> [n |-> 0, d |-> 1, up |-> FALSE]]
    ELSE [hue |-> [n |-> (60 * ((IF r = maxc THEN 0 ELSE IF g = maxc THEN 2 ELSE 4)
                                    * (maxc - minc)
                                + (IF r = maxc THEN g - b
                                   ELSE IF g = maxc THEN b - r ELSE r - g)))
                         % (360 * (maxc - minc)),
                   d |-> maxc - minc,
                   up |-> FALSE],
          sat |-> [n |-> 100 * (maxc - minc),
                   d |-> IF maxc + minc <= 255 THEN maxc + minc
                         ELSE 510 - maxc - minc,
                   up |-> <<maxc, minc>> \in SatRoundedUp]]

rgb_to_hls(t) == hls_of(t[1], t[2], t[3], Max3(t[1], t[2], t[3]), Min3(t[1], t[2], t[3]))

hex_to_hsl(hex_color) == rgb_to_hls(hex_to_rgb(hex_color))

\* sum_sq with the second color taken for black
sum_sq_from_black(a, b) == a[1]*a[1] + a[2]*a[2] + a[3]*a[3]

\* the sum of squares under the square root of color_distance
sum_sq(a, b) ==
    (a[1]-b[1])*(a[1]-b[1]) + (a[2]-b[2])*(a[2]-b[2]) + (a[3]-b[3])*(a[3]-b[3])

\* color_distance, squared
color_distance_sq(c1, c2) == sum_sq(hex_to_rgb(c1), hex_to_rgb(c2))

\* distance > tenths/10 and distance < tenths/10, on the squared distance
DistGt(d2, tenths) == 100 * d2 > tenths * tenths
DistLt(d2, tenths) == 100 * d2 < tenths * tenths

\* fraction > tenths/10 and fraction < tenths/10
FracGt(q, tenths) == 10 * q.n > tenths * q.d \/ (q.up /\ 10 * q.n = tenths * q.d)
FracLt(q, tenths) == 10 * q.n < tenths * q.d

(***************************************************************************)
(* Palettes                                                                *)
(***************************************************************************)
Slots == {"base00", "base01", "base02", "base03", "base04", "base05",
          "base06", "base07", "base08", "base09", "base0A", "base0B",
          "base0C", "base0D", "base0E", "base0F"}

DefaultColor == <<"#","0","0","0","0","0","0">>

\* base16.get(k, '#ffffff')
slot_color_or_white(base16, k) ==
    IF k \in DOMAIN base16 THEN base16[k] ELSE <<"#","f","f","f","f","f","f">>

\* base16.get(k, '#000000')
slot_color(base16, k) == IF k \in DOMAIN base16 THEN base16[k] ELSE DefaultColor

\* extract_features raises: hex_to_hsl is applied to all sixteen colors
extract_features_raises(base16) ==
    \E k \in Slots : hex_to_rgb_raises(slot_color(base16, k))

extract_features(base16) ==
    [dist_0B_0C |-> color_distance_sq(slot_color(base16, "base0B"),
                                      slot_color(base16, "base0C")),
     dist_0D_0C |-> color_distance_sq(slot_color(base16, "base0D"),
                                      slot_color(base16, "base0C")),
     hue_0B |-> hex_to_hsl(slot_color(base16, "base0B")).hue,
     sat_08 |-> hex_to_hsl(slot_color(base16, "base08")).sat]

\* get(name) without the .lower() call
get_without_lower(base16, name) == slot_color(base16, name)

\* the inner function get(name) of generate_extended
get(base16, name) == lower(slot_color(base16, name))

(***************************************************************************)
(* The frozen rules of generate_extended: the slot each field reads        *)
(***************************************************************************)
DiagnosticFields == {"diagnostic_error", "diagnostic_ok", "diagnostic_warning",
                     "diagnostic_info", "diagnostic_hint"}
SyntaxFields == {"syntax_comment", "syntax_string", "syntax_function",
                 "syntax_keyword", "syntax_type", "syntax_number",
                 "syntax_constant", "syntax_operator", "syntax_variable",
                 "syntax_parameter", "syntax_preproc", "syntax_special"}
UiFields == {"ui_accent", "ui_border", "ui_selection", "ui_float_bg",
             "ui_cursor_line"}
GitFields == {"git_add", "git_change", "git_delete"}

GeneratedFields == DiagnosticFields \cup SyntaxFields \cup UiFields \cup GitFields

\* diagnostic_slot with the comparison of the diagnostic_hint rule turned round
diagnostic_slot_hint_flipped(field, feat) ==
    CASE field = "diagnostic_error" -> "base08"
      [] field = "diagnostic_ok" -> "base0B"
      [] field = "diagnostic_warning" ->
            IF DistGt(feat.dist_0B_0C, 840) THEN "base09" ELSE "base0A"
      [] field = "diagnostic_info" ->
            IF FracGt(feat.sat_08, 761) THEN "base0D" ELSE "base0C"
      [] field = "diagnostic_hint" ->
            IF DistGt(feat.dist_0B_0C, 1123) THEN "base0C" ELSE "base0E"

diagnostic_slot(field, feat) ==
    CASE field = "diagnostic_error" -> "base08"
      [] field = "diagnostic_ok" -> "base0B"
      [] field = "diagnostic_warning" ->
            IF DistGt(feat.dist_0B_0C, 840) THEN "base09" ELSE "base0A"
      [] field = "diagnostic_info" ->
            IF FracGt(feat.sat_08, 761) THEN "base0D" ELSE "base0C"
      [] field = "diagnostic_hint" ->
            IF DistLt(feat.dist_0B_0C, 1123) THEN "base0C" ELSE "base0E"

\* syntax_slot with the comparison of the syntax_keyword rule turned round
syntax_slot_keyword_flipped(field, feat) ==
    CASE field = "syntax_comment" ->
            IF DistGt(feat.dist_0D_0C, 499) THEN "base03" ELSE "base04"
      [] field = "syntax_string" ->
            IF DistLt(feat.dist_0B_0C, 1123) THEN "base0B" ELSE "base0C"
      [] field = "syntax_function" ->
            IF DistGt(feat.dist_0D_0C, 499) THEN "base0D" ELSE "base09"
      [] field = "syntax_keyword" ->
            IF DistGt(feat.dist_0B_0C, 1123) THEN "base0E" ELSE "base0B"
      [] field = "syntax_type" ->
            IF FracGt(feat.sat_08, 696) THEN "base0A" ELSE "base0C"
      [] field = "syntax_number" ->
            IF FracLt(feat.hue_0B, 1042) THEN "base0E" ELSE "base09"
      [] field = "syntax_constant" ->
            IF FracGt(feat.hue_0B, 853) THEN "base09" ELSE "base0A"
      [] field = "syntax_operator" -> "base04"
      [] field = "syntax_variable" -> "base05"
      [] field = "syntax_parameter" -> "base0D"
      [] field = "syntax_preproc" -> "base0E"
      [] field = "syntax_special" -> "base0C"

syntax_slot(field, feat) ==
    CASE field = "syntax_comment" ->
            IF DistGt(feat.dist_0D_0C, 499) THEN "base03" ELSE "base04"
      [] field = "syntax_string" ->
            IF DistLt(feat.dist_0B_0C, 1123) THEN "base0B" ELSE "base0C"
      [] field = "syntax_function" ->
            IF DistGt(feat.dist_0D_0C, 499) THEN "base0D" ELSE "base09"
      [] field = "syntax_keyword" ->
            IF DistLt(feat.dist_0B_0C, 1123) THEN "base0E" ELSE "base0B"
      [] field = "syntax_type" ->
            IF FracGt(feat.sat_08, 696) THEN "base0A" ELSE "base0C"
      [] field = "syntax_number" ->
            IF FracLt(feat.hue_0B, 1042) THEN "base0E" ELSE "base09"
      [] field = "syntax_constant" ->
            IF FracGt(feat.hue_0B, 853) THEN "base09" ELSE "base0A"
      [] field = "syntax_operator" -> "base04"
      [] field = "syntax_variable" -> "base05"
      [] field = "syntax_parameter" -> "base0D"
      [] field = "syntax_preproc" -> "base0E"
      [] field = "syntax_special" -> "base0C"

\* ui_slot with ui_float_bg reading the background slot base00
ui_slot_float_bg_base00(field, feat) ==
    CASE field = "ui_accent" ->
            IF FracGt(feat.sat_08, 696) THEN "base0D" ELSE "base0C"
      [] field = "ui_border" ->
            IF FracGt(feat.sat_08, 696) THEN "base02" ELSE "base03"
      [] field = "ui_selection" -> "base02"
      [] field = "ui_float_bg" -> "base00"
      [] field = "ui_cursor_line" -> "base01"

ui_slot(field, feat) ==
    CASE field = "ui_accent" ->
            IF FracGt(feat.sat_08, 696) THEN "base0D" ELSE "base0C"
      [] field = "ui_border" ->
            IF FracGt(feat.sat_08, 696) THEN "base02" ELSE "base03"
      [] field = "ui_selection" -> "base02"
      [] field = "ui_float_bg" -> "base01"
      [] field = "ui_cursor_line" -> "base01"

git_slot(field, feat) ==
    CASE field = "git_add" -> "base0B"
      [] field = "git_change" ->
            IF DistLt(feat.dist_0B_0C, 1543) THEN "base0A" ELSE "base09"
      [] field = "git_delete" -> "base08"

rule_slot(field, feat) ==
    IF field \in DiagnosticFields THEN diagnostic_slot(field, feat)
    ELSE IF field \in SyntaxFields THEN syntax_slot(field, feat)
    ELSE IF field \in UiFields THEN ui_slot(field, feat)
    ELSE git_slot(field, feat)

generate_extended_raises(base16) == extract_features_raises(base16)

\* the dict built by the assignments extended[field] = get(slot)
apply_rules(base16, feat) ==
    [field \in GeneratedFields |-> get(base16, rule_slot(field, feat))]

generate_extended(base16) == apply_rules(base16, extract_features(base16))

(***************************************************************************)
(* SpecGen: generate_extended as a function of its argument                *)
(***************************************************************************)
\* the gruvbox-dark-hard palette
GruvboxDarkHard ==
    [base00 |-> <<"#","1","d","2","0","2","1">>,
     base01 |-> <<"#","3","c","3","8","3","6">>,
     base02 |-> <<"#","5","0","4","9","4","5">>,
     base03 |-> <<"#","6","6","5","c","5","4">>,
     base04 |-> <<"#","b","d","a","e","9","3">>,
     base05 |-> <<"#","d","5","c","4","a","1">>,
     base06 |-> <<"#","e","b","d","b","b","2">>,
     base07 |-> <<"#","f","b","f","1","c","7">>,
     base08 |-> <<"#","f","b","4","9","3","4">>,
     base09 |-> <<"#","f","e","8","0","1","9">>,
     base0A |-> <<"#","f","a","b","d","2","f">>,
     base0B |-> <<"#","b","8","b","b","2","6">>,
     base0C |-> <<"#","8","e","c","0","7","c">>,
     base0D |-> <<"#","8","3","a","5","9","8">>,
     base0E |-> <<"#","d","3","8","6","9","b">>,
     base0F |-> <<"#","d","6","5","d","0","e">>]

\* colors tried in the slots the features read: saturations of base08 on
\* both sides of 69.6 and 76.1, hues of base0B on both sides of 85.3 and
\* 104.2, distances on both sides of 49.9, 84.0, 112.3 and 154.3, and
\* upper-case spellings
Colors08 == {<<"#","f","b","4","9","3","4">>,
             <<"#","F","B","4","9","3","4">>,
             <<"#","d","c","3","2","2","f">>,
             <<"#","d","9","2","b","2","b">>,
             <<"#","b","f","6","1","6","a">>}
Colors0B == {<<"#","b","8","b","b","2","6">>,
             <<"#","B","8","B","B","2","6">>,
             <<"#","a","3","b","e","8","c">>,
             <<"#","0","0","f","f","0","0">>}
Colors0C == {<<"#","8","e","c","0","7","c">>,
             <<"#","b","8","b","b","2","6">>,
             <<"#","8","8","c","0","d","0">>,
             <<"#","5","f","b","f","9","f">>}
Colors0D == {<<"#","8","3","a","5","9","8">>,
             <<"#","8","1","a","1","c","1">>}

ValidPalettes ==
    {[GruvboxDarkHard EXCEPT !["base08"] = c8, !["base0B"] = cB,
                             !["base0C"] = cC, !["base0D"] = cD] :
        c8 \in Colors08, cB \in Colors0B, cC \in Colors0C, cD \in Colors0D}

\* a palette with a three-digit color, on which hex_to_rgb raises
MalformedPalette == [GruvboxDarkHard EXCEPT !["base00"] = <<"#","f","f","f">>]

\* palettes that lack slots: base16.get(k, '#000000') answers for them
SparsePalettes ==
    {[k \in Slots \ missing |-> GruvboxDarkHard[k]] :
        missing \in {{"base0C", "base0E"}, {"base08"}, {"base01", "base0B", "base0D"},
                     {"base00", "base06", "base07", "base0F"}, Slots}}

GenPalettes == ValidPalettes \cup {MalformedPalette} \cup SparsePalettes

BatchIdle ==
    /\ corpus = <<>>
    /\ pc = "unused"
    /\ args = <<>>
    /\ idx = 0
    /\ stats = <<>>
    /\ before = <<>>
    /\ writes = {}

ConcIdle ==
    /\ c_pc = <<>>
    /\ c_arg = <<>>
    /\ c_feat = <<>>
    /\ c_ext = <<>>
    /\ returned = {}

GenIdle ==
    /\ gen_in = <<>>
    /\ gen_pc = "unused"
    /\ gen_out = EmptyDict

FnIdle ==
    /\ fn_arg = <<>>
    /\ fn_pc = "unused"
    /\ fn_res = <<>>

NeighborIdle ==
    /\ nn_dir = <<>>
    /\ nn_report = <<>>
    /\ nn_themes = <<>>
    /\ nn_pc = "unused"
    /\ nn_i = 0
    /\ nn_locals = <<>>
    /\ nn_totals = <<>>
    /\ nn_misses = <<>>
    /\ nn_log = <<>>

InitGen ==
    /\ gen_in \in GenPalettes
    /\ gen_pc = "ready"
    /\ gen_out = EmptyDict
    /\ BatchIdle
    /\ ConcIdle
    /\ FnIdle
    /\ NeighborIdle

\* one call generate_extended(gen_in)
GenCall ==
    /\ gen_pc = "ready"
    /\ IF generate_extended_raises(gen_in)
       THEN gen_pc' = "raised" /\ gen_out' = EmptyDict
       ELSE gen_pc' = "returned" /\ gen_out' = generate_extended(gen_in)
    /\ UNCHANGED <<gen_in, batchVars, concVars, fnVars, nnVars>>

\* the caller goes on to another palette
GenNextPalette ==
    /\ gen_pc # "ready"
    /\ gen_in' \in GenPalettes
    /\ gen_pc' = "ready"
    /\ gen_out' = EmptyDict
    /\ UNCHANGED <<batchVars, concVars, fnVars, nnVars>>

NextGen == GenCall \/ GenNextPalette

SpecGen == InitGen /\ [][NextGen]_vars

(***************************************************************************)
(* SpecBatch: main() of generate_all_extended.py over a corpus of themes    *)
(*                                                                         *)
(* A theme.yml is its top-level keys in file order, the value under each   *)
(* key, and whether it still carries its author's formatting (comments,    *)
(* quoting), which add_extended_source_marker keeps and yaml.dump drops.   *)
(* Theme palettes are valid palettes, as the data model requires.          *)
(***************************************************************************)
NumThemes == 2

ThemeIds == 1..NumThemes

None == "<None>"

\* first occurrences of the elements of a sequence, in order
RECURSIVE Dedup(_)
Dedup(q) ==
    IF q = <<>> THEN <<>>
    ELSE LET front == Dedup(SubSeq(q, 1, Len(q) - 1))
             last == q[Len(q)]
         IN  IF \E i \in 1..Len(front) : front[i] = last
             THEN front ELSE Append(front, last)

HasKey(theme, key) == \E i \in 1..Len(theme.keys) : theme.keys[i] = key

\* yaml.safe_load of the file: the mapping, keys in order of first occurrence
load_theme(file) == [keys |-> Dedup(file.keys), val |-> file.val]

\* theme[key] = value on a dict: a new key goes last
dict_set(theme, key, value) ==
    [keys |-> IF HasKey(theme, key) THEN theme.keys ELSE Append(theme.keys, key),
     val |-> [k \in DOMAIN theme.val \cup {key} |->
                 IF k = key THEN value ELSE theme.val[k]]]

\* theme.get('extended', {})
theme_extended(theme) ==
    IF HasKey(theme, "extended") THEN theme.val["extended"] ELSE EmptyDict

\* theme_source that never finds an extended_source entry
theme_source_unread(theme) == None

\* theme.get('extended_source')
theme_source(theme) ==
    IF HasKey(theme, "extended_source") THEN theme.val["extended_source"] ELSE None

\* has_extended as bool(extended)
has_extended_nonempty(theme) == DOMAIN theme_extended(theme) # {}

\* bool(extended and 'diagnostic_error' in extended)
has_extended(theme) == "diagnostic_error" \in DOMAIN theme_extended(theme)

\* the lines of the file with 'extended_source: <source>' put in front of
\* the first line that starts with 'extended:'; the file is rewritten as is
\* when there is no such line
add_extended_source_marker(file, source) ==
    LET hits == {i \in 1..Len(file.keys) : file.keys[i] = "extended"}
        at == IF hits = {} THEN 0 ELSE CHOOSE i \in hits : \A j \in hits : i <= j
        later == \E j \in at..Len(file.keys) : file.keys[j] = "extended_source"
    IN  IF at = 0 THEN file
        ELSE [file EXCEPT
                !.keys = SubSeq(file.keys, 1, at - 1) \o <<"extended_source">>
                             \o SubSeq(file.keys, at, Len(file.keys)),
                !.val = [k \in DOMAIN file.val \cup {"extended_source"} |->
                            IF k = "extended_source" /\ ~later
                            THEN source ELSE file.val[k]]]

key_order == <<"meta", "base16", "ansi", "special", "extended_source", "extended">>

\* save_theme writing the keys of key_order only
save_theme_known_only(theme) ==
    LET InTheme(k) == HasKey(theme, k)
        known == SelectSeq(key_order, InTheme)
    IN  [exists |-> TRUE,
         keys |-> known,
         val |-> [k \in {known[i] : i \in 1..Len(known)} |-> theme.val[k]],
         hand |-> FALSE]

\* save_theme: the known keys in key_order, then the others in dict order,
\* dumped by yaml.dump
save_theme(theme) ==
    LET InTheme(k) == HasKey(theme, k)
        known == SelectSeq(key_order, InTheme)
        NotKnown(k) == ~\E i \in 1..Len(known) : known[i] = k
    IN  [exists |-> TRUE,
         keys |-> known \o SelectSeq(theme.keys, NotKnown),
         val |-> theme.val,
         hand |-> FALSE]

ZeroStats == [skipped_plugin |-> 0, marked_plugin |-> 0, generated |-> 0,
              regenerated |-> 0, skipped_no_base16 |-> 0]

Bump(st, counter) == [st EXCEPT ![counter] = @ + 1]

\* the outcome of one loop iteration: the file it leaves, the counters,
\* whether the file was opened for writing, whether an exception escaped
Skip(file, st) == [file |-> file, stats |-> st, wrote |-> FALSE, raised |-> FALSE]

Raised(file, st) == [file |-> file, stats |-> st, wrote |-> FALSE, raised |-> TRUE]

\* a write that does not look at args.dry_run
Write_ignoring_dry_run(a, file, written, st) ==
    [file |-> written, stats |-> st, wrote |-> TRUE, raised |-> FALSE]

\* a write guarded by `if not args.dry_run`
Write(a, file, written, st) ==
    IF a.dry_run THEN Skip(file, st)
    ELSE [file |-> written, stats |-> st, wrote |-> TRUE, raised |-> FALSE]

\* with_generated without the assignment to theme['extended']
with_generated_unassigned(theme) == theme

\* theme['extended'] = generate_extended(theme['base16'])
with_generated(theme) ==
    dict_set(theme, "extended", generate_extended(theme.val["base16"]))

\* the two guarded blocks that call generate_extended: under dry-run nothing
\* is computed; otherwise an exception of generate_extended escapes main()
GenerateAndSave(a, file, theme, written, st) ==
    IF ~a.dry_run /\ generate_extended_raises(theme.val["base16"])
    THEN Raised(file, st)
    ELSE Write(a, file, written, st)

\* handle_theme without the test for source == 'plugin'
handle_theme_unprotected(file, theme, source, has_ext, a, st) ==
    IF a.mark_existing
    THEN IF has_ext /\ source = None
         THEN Write(a, file, add_extended_source_marker(file, "plugin"),
                    Bump(st, "marked_plugin"))
         ELSE Skip(file, st)
    ELSE IF has_ext /\ source = None THEN Skip(file, st)
    ELSE IF a.regenerate /\ source = "generated"
         THEN GenerateAndSave(a, file, theme, save_theme(with_generated(theme)),
                              Bump(st, "regenerated"))
    ELSE IF ~has_ext
         THEN GenerateAndSave(a, file, theme,
                              save_theme(dict_set(with_generated(theme),
                                                  "extended_source", "generated")),
                              Bump(st, "generated"))
    ELSE Skip(file, st)

\* lines 188-228: the loop body for a theme that has a base16 palette
handle_theme(file, theme, source, has_ext, a, st) ==
    IF a.mark_existing
    THEN IF has_ext /\ source = None
         THEN Write(a, file, add_extended_source_marker(file, "plugin"),
                    Bump(st, "marked_plugin"))
         ELSE Skip(file, st)
    ELSE IF source = "plugin" THEN Skip(file, Bump(st, "skipped_plugin"))
    ELSE IF has_ext /\ source = None THEN Skip(file, st)
    ELSE IF a.regenerate /\ source = "generated"
         THEN GenerateAndSave(a, file, theme, save_theme(with_generated(theme)),
                              Bump(st, "regenerated"))
    ELSE IF ~has_ext
         THEN GenerateAndSave(a, file, theme,
                              save_theme(dict_set(with_generated(theme),
                                                  "extended_source", "generated")),
                              Bump(st, "generated"))
    ELSE Skip(file, st)

\* check_base16 without the test for 'base16': theme['base16'] raises KeyError
check_base16_unchecked(file, theme, a, st) ==
    IF ~HasKey(theme, "base16") THEN Raised(file, st)
    ELSE handle_theme(file, theme, theme_source(theme), has_extended(theme), a, st)

\* lines 179-186: the loaded theme is checked for a base16 palette
check_base16(file, theme, a, st) ==
    IF ~HasKey(theme, "base16") THEN Skip(file, Bump(st, "skipped_no_base16"))
    ELSE handle_theme(file, theme, theme_source(theme), has_extended(theme), a, st)

\* one iteration of the for-loop of main() on one theme directory
process_theme(file, a, st) ==
    IF ~file.exists THEN Skip(file, st)
    ELSE check_base16(file, load_theme(file), a, st)

\* the state of a run: the files, the counters, the files written, and
\* whether an exception ended it
RunState(files, st, wr, ab) ==
    [corpus |-> files, stats |-> st, writes |-> wr, aborted |-> ab]

\* the effect of one loop iteration with outcome r on the run
after_theme(run, i, r) ==
    IF r.raised THEN [run EXCEPT !.aborted = TRUE]
    ELSE RunState([run.corpus EXCEPT ![i] = r.file], r.stats,
                  IF r.wrote THEN run.writes \cup {i} ELSE run.writes, FALSE)

\* the for-loop of main() from theme i on
RECURSIVE run_loop(_, _, _)
run_loop(run, a, i) ==
    IF i > Len(run.corpus) \/ run.aborted THEN run
    ELSE run_loop(after_theme(run, i, process_theme(run.corpus[i], a, run.stats)),
                  a, i + 1)

\* one whole run of main() with command line a over the files
main(files, a) == run_loop(RunState(files, ZeroStats, {}, FALSE), a, 1)

\* colors by name
C_BF616A == <<"#","B","F","6","1","6","A">>
C_a3be8c == <<"#","a","3","b","e","8","c">>
C_88c0d0 == <<"#","8","8","c","0","d","0">>
C_81a1c1 == <<"#","8","1","a","1","c","1">>
C_cc241d == <<"#","c","c","2","4","1","d">>
C_928374 == <<"#","9","2","8","3","7","4">>
C_98971a == <<"#","9","8","9","7","1","a">>
C_458588 == <<"#","4","5","8","5","8","8">>

\* the palette of every second theme: other branches of the rules, and an
\* upper-case spelling
NordLike ==
    [GruvboxDarkHard EXCEPT !["base08"] = C_BF616A, !["base0B"] = C_a3be8c,
                            !["base0C"] = C_88c0d0, !["base0D"] = C_81a1c1]

ThemePalette(i) == IF i % 2 = 1 THEN GruvboxDarkHard ELSE NordLike

\* a hand-authored extended section, and one without diagnostic_error
HandExtended == [diagnostic_error |-> C_cc241d, syntax_comment |-> C_928374,
                 git_add |-> C_98971a]
PartialExtended == [syntax_comment |-> C_928374, ui_accent |-> C_458588]

ExtendedOption(i, ext) ==
    CASE ext = "empty" -> EmptyDict
      [] ext = "partial" -> PartialExtended
      [] ext = "hand" -> HandExtended
      [] ext = "own" -> generate_extended(ThemePalette(i))

SectionValue(i, key, src, ext) ==
    CASE key = "base16" -> ThemePalette(i)
      [] key = "extended_source" -> src
      [] key = "extended" -> ExtendedOption(i, ext)
      [] OTHER -> [id |-> key]

MkFile(i, keys, src, ext) ==
    [exists |-> TRUE,
     keys |-> keys,
     val |-> [k \in {keys[j] : j \in 1..Len(keys)} |-> SectionValue(i, k, src, ext)],
     hand |-> ext # "own"]

\* a theme directory without theme.yml
NoThemeYml == [exists |-> FALSE, keys |-> <<>>, val |-> <<>>, hand |-> FALSE]

Sources == {None, "plugin", "generated"}

\* the shapes of theme.yml a theme may start with: its top-level keys, its
\* extended_source and its extended section
ThemeKinds ==
    {[keys |-> <<"meta", "base16">>
                 \o (IF src = None THEN <<>> ELSE <<"extended_source">>)
                 \o (IF ext = "absent" THEN <<>> ELSE <<"extended">>),
      src |-> src, ext |-> ext] :
        src \in Sources, ext \in {"absent", "empty", "partial", "hand", "own"}}
    \cup
    {[keys |-> <<"meta">>
                 \o (IF k[1] = None THEN <<>> ELSE <<"extended_source">>)
                 \o (IF k[2] = "absent" THEN <<>> ELSE <<"extended">>),
      src |-> k[1], ext |-> k[2]] :
        k \in {<<None, "absent">>, <<None, "hand">>,
               <<"plugin", "hand">>, <<"generated", "hand">>}}
    \cup
    {[keys |-> <<"custom", "meta", "base16", "ansi", "special", "extended",
                 "extended_source">>, src |-> "generated", ext |-> "hand"],
     [keys |-> <<"meta", "base16", "extended", "custom">>,
      src |-> None, ext |-> "hand"],
     [keys |-> <<>>, src |-> None, ext |-> "no theme.yml"]}

FileOfKind(i, kind) ==
    IF kind.keys = <<>> THEN NoThemeYml
    ELSE MkFile(i, kind.keys, kind.src, kind.ext)

Flags == [mark_existing : BOOLEAN, regenerate : BOOLEAN, dry_run : BOOLEAN]

InitBatch ==
    /\ \E kinds \in [ThemeIds -> ThemeKinds] :
          corpus = [i \in ThemeIds |-> FileOfKind(i, kinds[i])]
    /\ pc = "idle"
    /\ args = [mark_existing |-> FALSE, regenerate |-> FALSE, dry_run |-> FALSE]
    /\ idx = 0
    /\ stats = ZeroStats
    /\ before = corpus
    /\ writes = {}
    /\ GenIdle
    /\ ConcIdle
    /\ FnIdle
    /\ NeighborIdle

\* main() up to the for-loop: parse the command line, zero the counters,
\* list the theme directories in sorted order
StartRun(a) ==
    /\ pc \in {"idle", "done", "aborted"}
    /\ args' = a
    /\ idx' = 1
    /\ stats' = ZeroStats
    /\ before' = corpus
    /\ writes' = {}
    /\ pc' = "loop"
    /\ UNCHANGED <<corpus, genVars, concVars, fnVars, nnVars>>

\* the loop variables after an iteration with outcome r
LoopStep(r) ==
    IF r.raised
    THEN pc' = "aborted" /\ UNCHANGED <<corpus, stats, writes, idx>>
    ELSE /\ corpus' = [corpus EXCEPT ![idx] = r.file]
         /\ stats' = r.stats
         /\ writes' = (IF r.wrote THEN writes \cup {idx} ELSE writes)
         /\ idx' = idx + 1
         /\ pc' = pc

\* one iteration of the for-loop
ProcessTheme ==
    /\ pc = "loop"
    /\ idx \in ThemeIds
    /\ LoopStep(process_theme(corpus[idx], args, stats))
    /\ UNCHANGED <<args, before, genVars, concVars, fnVars, nnVars>>

\* the loop is over: print the summary
Summary ==
    /\ pc = "loop"
    /\ idx \notin ThemeIds
    /\ pc' = "done"
    /\ UNCHANGED <<corpus, args, idx, stats, before, writes, genVars, concVars, fnVars, nnVars>>

NextBatch ==
    \/ \E a \in Flags : StartRun(a)
    \/ ProcessTheme
    \/ Summary

SpecBatch == InitBatch /\ [][NextBatch]_vars

(***************************************************************************)
(* SpecConc: several callers inside generate_extended at the same time.    *)
(* feat and extended are local variables of a call; the function reads    *)
(* its argument and no module-level state.  A call is cut into the blocks *)
(* of the source: features, DIAGNOSTIC, SYNTAX, UI, GIT, return.           *)
(***************************************************************************)
NumCallers == 2

Callers == 1..NumCallers

UpperCaseGruvbox ==
    [GruvboxDarkHard EXCEPT !["base08"] = <<"#","F","B","4","9","3","4">>,
                            !["base0B"] = <<"#","B","8","B","B","2","6">>,
                            !["base0C"] = <<"#","b","8","b","b","2","6">>]

ConcPalettes == {GruvboxDarkHard, NordLike, UpperCaseGruvbox, MalformedPalette}

InitConc ==
    /\ c_pc = [c \in Callers |-> "idle"]
    /\ c_arg = [c \in Callers |-> EmptyDict]
    /\ c_feat = [c \in Callers |-> EmptyDict]
    /\ c_ext = [c \in Callers |-> EmptyDict]
    /\ returned = {}
    /\ GenIdle
    /\ BatchIdle
    /\ FnIdle
    /\ NeighborIdle

\* caller c enters generate_extended(base16)
Call(c, base16) ==
    /\ c_pc[c] = "idle"
    /\ c_pc' = [c_pc EXCEPT ![c] = "features"]
    /\ c_arg' = [c_arg EXCEPT ![c] = base16]
    /\ c_feat' = [c_feat EXCEPT ![c] = EmptyDict]
    /\ c_ext' = [c_ext EXCEPT ![c] = EmptyDict]
    /\ UNCHANGED <<returned, genVars, batchVars, fnVars, nnVars>>

\* ExtractFeatures keeping feat in one module-level variable
ExtractFeatures_shared(c) ==
    /\ c_pc[c] = "features"
    /\ IF extract_features_raises(c_arg[c])
       THEN /\ c_pc' = [c_pc EXCEPT ![c] = "idle"]
            /\ UNCHANGED <<c_feat, c_ext>>
       ELSE /\ c_pc' = [c_pc EXCEPT ![c] = "diagnostic"]
            /\ c_feat' = [k \in Callers |-> extract_features(c_arg[c])]
            /\ c_ext' = [c_ext EXCEPT ![c] = EmptyDict]
    /\ UNCHANGED <<c_arg, returned, genVars, batchVars, fnVars, nnVars>>

\* feat = extract_features(base16); extended = {}.  An exception of
\* hex_to_rgb leaves the call without a result.
ExtractFeatures(c) ==
    /\ c_pc[c] = "features"
    /\ IF extract_features_raises(c_arg[c])
       THEN /\ c_pc' = [c_pc EXCEPT ![c] = "idle"]
            /\ UNCHANGED <<c_feat, c_ext>>
       ELSE /\ c_pc' = [c_pc EXCEPT ![c] = "diagnostic"]
            /\ c_feat' = [c_feat EXCEPT ![c] = extract_features(c_arg[c])]
            /\ c_ext' = [c_ext EXCEPT ![c] = EmptyDict]
    /\ UNCHANGED <<c_arg, returned, genVars, batchVars, fnVars, nnVars>>

\* the assignments extended[field] = ... of one block
assign_fields(extended, base16, feat, fields) ==
    [f \in DOMAIN extended \cup fields |->
        IF f \in fields THEN get(base16, rule_slot(f, feat)) ELSE extended[f]]

AssignBlock(c, at, fields, next) ==
    /\ c_pc[c] = at
    /\ c_ext' = [c_ext EXCEPT ![c] = assign_fields(c_ext[c], c_arg[c], c_feat[c], fields)]
    /\ c_pc' = [c_pc EXCEPT ![c] = next]
    /\ UNCHANGED <<c_arg, c_feat, returned, genVars, batchVars, fnVars, nnVars>>

AssignDiagnostic(c) == AssignBlock(c, "diagnostic", DiagnosticFields, "syntax")
AssignSyntax(c) == AssignBlock(c, "syntax", SyntaxFields, "ui")
AssignUi(c) == AssignBlock(c, "ui", UiFields, "git")
AssignGit(c) == AssignBlock(c, "git", GitFields, "return")

\* return extended
Return(c) ==
    /\ c_pc[c] = "return"
    /\ returned' = returned \cup {[base16 |-> c_arg[c], extended |-> c_ext[c]]}
    /\ c_pc' = [c_pc EXCEPT ![c] = "idle"]
    /\ UNCHANGED <<c_arg, c_feat, c_ext, genVars, batchVars, fnVars, nnVars>>

NextConc ==
    \E c \in Callers :
        \/ \E base16 \in ConcPalettes : Call(c, base16)
        \/ ExtractFeatures(c)
        \/ AssignDiagnostic(c)
        \/ AssignSyntax(c)
        \/ AssignUi(c)
        \/ AssignGit(c)
        \/ Return(c)

SpecConc == InitConc /\ [][NextConc]_vars

(***************************************************************************)
(* The nearest-neighbor harness, generate_extended_palette.py.             *)
(* A distance is kept in hundredths, rounded down; comparisons of one      *)
(* color distance against another or against a whole-number threshold are  *)
(* made on the integer under the square root, where they are exact.        *)
(***************************************************************************)
\* the largest r in lo..hi with r * r <= n
RECURSIVE sqrt_floor(_, _, _)
sqrt_floor(n, lo, hi) ==
    IF lo >= hi THEN lo
    ELSE IF ((lo + hi + 1) \div 2) * ((lo + hi + 1) \div 2) <= n
         THEN sqrt_floor(n, (lo + hi + 1) \div 2, hi)
         ELSE sqrt_floor(n, lo, ((lo + hi + 1) \div 2) - 1)

\* x ** 0.5 for the sum of squares x, in hundredths
root_hundredths(x) == sqrt_floor(10000 * x, 0, 44200)

\* color_distance(c1, c2), in hundredths
color_distance(c1, c2) == root_hundredths(color_distance_sq(c1, c2))

\* the key list of palette_distance, learn_mapping and find_base16_match
base16_keys == <<"base00", "base01", "base02", "base03", "base04", "base05",
                 "base06", "base07", "base08", "base09", "base0A", "base0B",
                 "base0C", "base0D", "base0E", "base0F">>

\* total after the first n keys of the loop of palette_distance
RECURSIVE palette_distance_upto(_, _, _)
palette_distance_upto(base16_a, base16_b, n) ==
    IF n = 0 THEN 0
    ELSE palette_distance_upto(base16_a, base16_b, n - 1)
         + color_distance(slot_color(base16_a, base16_keys[n]),
                          slot_color(base16_b, base16_keys[n]))

palette_distance(base16_a, base16_b) ==
    palette_distance_upto(base16_a, base16_b, Len(base16_keys))

\* the squared distance of ext_color to slot n of the key list
slot_dist_sq(ext_color, base16, n) ==
    color_distance_sq(lower(ext_color), lower(slot_color(base16, base16_keys[n])))

\* best_match and best_dist before the key loop: None and float('inf')
NoMatch == [match |-> 0, dist_sq |-> -1]

\* one pass of the key loop: `if dist < best_dist`
closer(best, n, dist_sq) ==
    IF best.match = 0 \/ dist_sq < best.dist_sq
    THEN [match |-> n, dist_sq |-> dist_sq]
    ELSE best

\* best_match (as an index of the key list) and best_dist (squared) after
\* the first n keys
RECURSIVE closest_upto(_, _, _)
closest_upto(ext_color, base16, n) ==
    IF n = 0 THEN NoMatch
    ELSE closer(closest_upto(ext_color, base16, n - 1), n,
                slot_dist_sq(ext_color, base16, n))

best_match_index(ext_color, base16) ==
    closest_upto(ext_color, base16, Len(base16_keys)).match

best_dist_sq(ext_color, base16) ==
    closest_upto(ext_color, base16, Len(base16_keys)).dist_sq

\* the acceptance threshold of learn_mapping: best_dist < 100
MappingThreshold == 100

\* learn_mapping accepting every field, whatever its distance
learn_mapping_unfiltered(neighbor_base16, neighbor_extended) ==
    [f \in DOMAIN neighbor_extended |->
        base16_keys[best_match_index(neighbor_extended[f], neighbor_base16)]]

\* learn_mapping: field -> closest slot, for the fields close enough
learn_mapping(neighbor_base16, neighbor_extended) ==
    [f \in {g \in DOMAIN neighbor_extended :
               best_dist_sq(neighbor_extended[g], neighbor_base16)
                   < MappingThreshold * MappingThreshold} |->
        base16_keys[best_match_index(neighbor_extended[f], neighbor_base16)]]

\* apply_mapping: the target's own slot, lower-cased, for every mapped
\* field whose slot the target has
apply_mapping(target_base16, mapping) ==
    [f \in {g \in DOMAIN mapping : mapping[g] \in DOMAIN target_base16} |->
        lower(target_base16[mapping[f]])]

\* The order in which the dicts of extended fields are iterated: the
\* extended sections of the corpus list their fields in this order.
FieldOrder ==
    <<"diagnostic_error", "diagnostic_warning", "diagnostic_info",
      "diagnostic_hint", "diagnostic_ok",
      "syntax_comment", "syntax_string", "syntax_function", "syntax_keyword",
      "syntax_type", "syntax_number", "syntax_constant", "syntax_operator",
      "syntax_variable", "syntax_parameter", "syntax_preproc", "syntax_special",
      "ui_accent", "ui_border", "ui_selection", "ui_float_bg", "ui_cursor_line",
      "git_add", "git_change", "git_delete", "terminal_cursor">>

STANDARD_FIELDS ==
    {"diagnostic_error", "diagnostic_warning", "diagnostic_info",
     "diagnostic_hint", "diagnostic_ok",
     "syntax_comment", "syntax_string", "syntax_function", "syntax_keyword",
     "syntax_type", "syntax_number", "syntax_constant", "syntax_operator",
     "syntax_variable", "syntax_parameter", "syntax_preproc", "syntax_special",
     "ui_accent", "ui_border", "ui_selection", "ui_float_bg", "ui_cursor_line",
     "git_add", "git_change", "git_delete"}

EXCLUDE_AS_NEIGHBORS == {"github-dark-default", "github-dark-dimmed"}

\* the bucket limits of compare_palettes: dist < 1, dist < 10
ExactBelow == 1
CloseBelow == 10

\* the entry compare_palettes files for a field
entry_of(field, pred_color, actual_color) ==
    [field |-> field, predicted |-> pred_color, actual |-> actual_color,
     distance |-> color_distance(pred_color, actual_color)]

\* bucket_of with `<=` in the place of `<` in both tests
bucket_of_inclusive(pred_color, actual_color) ==
    IF color_distance_sq(pred_color, actual_color) <= ExactBelow * ExactBelow
    THEN "exact"
    ELSE IF color_distance_sq(pred_color, actual_color) <= CloseBelow * CloseBelow
    THEN "close"
    ELSE "different"

\* the if / elif / else of compare_palettes
bucket_of(pred_color, actual_color) ==
    IF color_distance_sq(pred_color, actual_color) < ExactBelow * ExactBelow
    THEN "exact"
    ELSE IF color_distance_sq(pred_color, actual_color) < CloseBelow * CloseBelow
    THEN "close"
    ELSE "different"

\* the fields the loop of compare_palettes does not skip, in loop order
compared_fields(predicted, actual, fields_to_compare) ==
    LET Kept(f) == /\ f \in DOMAIN predicted
                   /\ f \in DOMAIN actual
                   /\ (fields_to_compare = {} \/ f \in fields_to_compare)
    IN  SelectSeq(FieldOrder, Kept)

\* the list results[bucket]
bucket_list(predicted, actual, compared, bucket) ==
    LET InBucket(f) == bucket_of(lower(predicted[f]), lower(actual[f])) = bucket
        hit == SelectSeq(compared, InBucket)
    IN  [i \in 1..Len(hit) |->
            entry_of(hit[i], lower(predicted[hit[i]]), lower(actual[hit[i]]))]

\* compare_palettes of generate_extended_palette.py
compare_palettes(predicted, actual, fields_to_compare) ==
    [exact |-> bucket_list(predicted, actual,
                           compared_fields(predicted, actual, fields_to_compare),
                           "exact"),
     close |-> bucket_list(predicted, actual,
                           compared_fields(predicted, actual, fields_to_compare),
                           "close"),
     different |-> bucket_list(predicted, actual,
                               compared_fields(predicted, actual, fields_to_compare),
                               "different")]

\* theme.get("base16", {}) and theme.get("extended", {})
get_base16(theme) == IF "base16" \in DOMAIN theme THEN theme["base16"] ELSE EmptyDict

get_extended(theme) == IF "extended" \in DOMAIN theme THEN theme["extended"] ELSE EmptyDict

\* the test that puts a loaded theme into themes_with_extended
is_labeled(entry) ==
    /\ "extended" \in DOMAIN entry.theme
    /\ "diagnostic_error" \in DOMAIN get_extended(entry.theme)

\* the loading loop of main(): themes_with_extended, in sorted-name order
load_themes(dir) == SelectSeq(dir, is_labeled)

\* best_neighbor and best_distance before the search: None and float('inf')
NoNeighbor == [neighbor |-> 0, distance |-> -1]

\* nearer with `<=` in the place of `<`
nearer_or_equal(best, n, dist) ==
    IF best.neighbor = 0 \/ dist <= best.distance
    THEN [neighbor |-> n, distance |-> dist]
    ELSE best

\* `if dist < best_distance` of the neighbor search
nearer(best, n, dist) ==
    IF best.neighbor = 0 \/ dist < best.distance
    THEN [neighbor |-> n, distance |-> dist]
    ELSE best

\* skipped_as_neighbor without the test against the test theme
skipped_as_neighbor_self_allowed(themes, t, n) ==
    themes[n].name \in EXCLUDE_AS_NEIGHBORS

\* the two `continue` tests of the neighbor search
skipped_as_neighbor(themes, t, n) ==
    \/ themes[n].name = themes[t].name
    \/ themes[n].name \in EXCLUDE_AS_NEIGHBORS

\* the neighbor search for test theme t after the first n candidates
RECURSIVE nearest_upto(_, _, _)
nearest_upto(themes, t, n) ==
    IF n = 0 THEN NoNeighbor
    ELSE IF skipped_as_neighbor(themes, t, n) THEN nearest_upto(themes, t, n - 1)
    ELSE nearer(nearest_upto(themes, t, n - 1), n,
                palette_distance(get_base16(themes[t].theme),
                                 get_base16(themes[n].theme)))

nearest_neighbor(themes, t) == nearest_upto(themes, t, Len(themes))

NoResults == [exact |-> <<>>, close |-> <<>>, different |-> <<>>]

\* the locals of an iteration before the neighbor search
NoLocals == [best |-> NoNeighbor, mapping |-> EmptyDict, predicted |-> EmptyDict]

\* what an iteration of the leave-one-out loop leaves behind: the test
\* theme, its neighbor, the prediction and the comparison
graded(themes, t, locals, results) ==
    [test |-> themes[t].name,
     neighbor |-> IF locals.best.neighbor = 0 THEN None
                  ELSE themes[locals.best.neighbor].name,
     neighbor_index |-> locals.best.neighbor,
     distance |-> locals.best.distance,
     mapping |-> locals.mapping,
     predicted |-> locals.predicted,
     results |-> results]

\* results['different'][:5]: the misses an iteration files in all_misses
ShownMisses == 5

shown(different) ==
    SubSeq(different, 1, IF Len(different) < ShownMisses THEN Len(different)
                         ELSE ShownMisses)

\* {**entry, 'theme': test_name, 'neighbor': best_neighbor}
miss_of(entry, g) ==
    [field |-> entry.field, predicted |-> entry.predicted, actual |-> entry.actual,
     distance |-> entry.distance, theme |-> g.test, neighbor |-> g.neighbor]

misses_of(g) ==
    [i \in 1..Len(shown(g.results.different)) |->
        miss_of(shown(g.results.different)[i], g)]

ZeroTotals == [exact |-> 0, close |-> 0, different |-> 0, fields |-> 0]

add_totals(totals, results) ==
    [exact |-> totals.exact + Len(results.exact),
     close |-> totals.close + Len(results.close),
     different |-> totals.different + Len(results.different),
     fields |-> totals.fields + Len(results.exact) + Len(results.close)
                    + Len(results.different)]

\* Counter(m['field'] for m in all_misses): the count of a field, and the
\* place of its first miss
field_count(misses, f) == Cardinality({i \in 1..Len(misses) : misses[i].field = f})

first_miss(misses, f) ==
    CHOOSE i \in 1..Len(misses) :
        misses[i].field = f /\ \A j \in 1..(i - 1) : misses[j].field # f

\* g comes before f in most_common: more misses, or as many and seen first
ranked_before(misses, g, f) ==
    \/ field_count(misses, g) > field_count(misses, f)
    \/ /\ field_count(misses, g) = field_count(misses, f)
       /\ first_miss(misses, g) < first_miss(misses, f)

missed_fields(misses) == {misses[i].field : i \in 1..Len(misses)}

rank(misses, f) ==
    1 + Cardinality({g \in missed_fields(misses) : ranked_before(misses, g, f)})

\* field_misses.most_common(10): at most ten (field, count) lines
ReportedFields == 10

most_common(misses, n) ==
    [k \in 1..(IF Cardinality(missed_fields(misses)) < n
               THEN Cardinality(missed_fields(misses)) ELSE n) |->
        [field |-> CHOOSE f \in missed_fields(misses) : rank(misses, f) = k,
         count |-> field_count(misses,
                               CHOOSE f \in missed_fields(misses) : rank(misses, f) = k)]]

(***************************************************************************)
(* SpecNeighbor: one run of main() of generate_extended_palette.py over a  *)
(* corpus.  Each name of the corpus is absent or holds one of four         *)
(* themes; palettes are valid and every extended color is a hex string.    *)
(***************************************************************************)
\* theme directories, in sorted order
NeighborNames == <<"ayu", "github-dark-default", "gruvbox", "nord">>

\* a hand-authored extended palette over the NordLike palette
NordHandExtended ==
    [diagnostic_error |-> <<"#","B","F","6","1","6","A">>,
     diagnostic_warning |-> <<"#","f","a","b","d","2","f">>,
     diagnostic_info |-> <<"#","8","3","a","5","d","8">>,
     syntax_comment |-> <<"#","9","2","8","3","7","4">>,
     syntax_string |-> <<"#","0","0","f","f","0","0">>,
     syntax_function |-> <<"#","0","0","0","0","f","f">>,
     syntax_keyword |-> <<"#","f","f","0","0","f","f">>,
     syntax_type |-> <<"#","0","0","f","f","f","f">>,
     syntax_number |-> <<"#","f","f","0","0","0","0">>,
     syntax_constant |-> <<"#","F","E","8","A","1","9">>,
     git_add |-> <<"#","9","8","9","7","1","a">>,
     terminal_cursor |-> <<"#","f","f","f","f","f","f">>]

\* the gruvbox palette without three of its slots
PartialPalette ==
    [k \in Slots \ {"base0C", "base0E", "base0F"} |-> GruvboxDarkHard[k]]

PartialPaletteExtended ==
    [diagnostic_error |-> <<"#","f","b","4","9","3","4">>,
     syntax_keyword |-> <<"#","d","3","8","6","9","b">>,
     syntax_string |-> <<"#","b","8","b","b","2","6">>,
     ui_accent |-> <<"#","8","3","a","5","9","8">>]

UnlabeledExtended ==
    [syntax_comment |-> <<"#","9","2","8","3","7","4">>]

NeighborThemeKinds ==
    <<[base16 |-> GruvboxDarkHard, extended |-> generate_extended(GruvboxDarkHard)],
      [base16 |-> NordLike, extended |-> NordHandExtended],
      [base16 |-> PartialPalette, extended |-> PartialPaletteExtended],
      [base16 |-> NordLike, extended |-> UnlabeledExtended]>>

\* the themes a choice of kinds (0: no such directory) puts under themes/,
\* in sorted-name order
dir_of(choice) ==
    LET Present(i) == choice[i] # 0
        present == SelectSeq([i \in 1..Len(NeighborNames) |-> i], Present)
    IN  [k \in 1..Len(present) |->
            [name |-> NeighborNames[present[k]],
             theme |-> NeighborThemeKinds[choice[present[k]]]]]

InitNeighbor ==
    /\ \E choice \in [1..Len(NeighborNames) -> 0..Len(NeighborThemeKinds)] :
          nn_dir = dir_of(choice)
    /\ nn_pc = "load"
    /\ nn_themes = <<>>
    /\ nn_i = 0
    /\ nn_locals = NoLocals
    /\ nn_totals = ZeroTotals
    /\ nn_misses = <<>>
    /\ nn_log = <<>>
    /\ nn_report = <<>>
    /\ GenIdle
    /\ BatchIdle
    /\ ConcIdle
    /\ FnIdle

\* lines 148-182: load the themes, keep those with an extended palette,
\* zero the totals
LoadThemes ==
    /\ nn_pc = "load"
    /\ nn_themes' = load_themes(nn_dir)
    /\ nn_i' = 1
    /\ nn_totals' = ZeroTotals
    /\ nn_misses' = <<>>
    /\ nn_pc' = "loop"
    /\ UNCHANGED <<nn_dir, nn_locals, nn_log, nn_report, genVars, batchVars, concVars,
                   fnVars>>

\* the end of the neighbor search with `best`: without a neighbor the
\* iteration reports "No neighbor found!" and the loop continues
NeighborFound(best) ==
    IF best.neighbor = 0
    THEN /\ nn_log' = Append(nn_log, graded(nn_themes, nn_i, NoLocals, NoResults))
         /\ nn_i' = nn_i + 1
         /\ nn_pc' = "loop"
         /\ nn_locals' = NoLocals
    ELSE /\ nn_locals' = [NoLocals EXCEPT !.best = best]
         /\ nn_pc' = "learn"
         /\ UNCHANGED <<nn_log, nn_i>>

\* lines 185-208: the neighbor search for the next test theme
FindNeighbor ==
    /\ nn_pc = "loop"
    /\ nn_i \in 1..Len(nn_themes)
    /\ NeighborFound(nearest_neighbor(nn_themes, nn_i))
    /\ UNCHANGED <<nn_dir, nn_themes, nn_totals, nn_misses, nn_report,
                   genVars, batchVars, concVars, fnVars>>

\* lines 210-215: mapping = learn_mapping(neighbor_base16, neighbor_extended)
learn_step(themes, t, n) ==
    learn_mapping(get_base16(themes[n].theme), get_extended(themes[n].theme))

LearnMapping ==
    /\ nn_pc = "learn"
    /\ nn_locals' = [nn_locals EXCEPT
                        !.mapping = learn_step(nn_themes, nn_i, nn_locals.best.neighbor)]
    /\ nn_pc' = "apply"
    /\ UNCHANGED <<nn_dir, nn_themes, nn_i, nn_totals, nn_misses, nn_log, nn_report,
                   genVars, batchVars, concVars, fnVars>>

\* apply_step applying the mapping to the neighbor's palette
apply_step_to_neighbor(themes, t, n, mapping) ==
    apply_mapping(get_base16(themes[n].theme), mapping)

\* line 218: predicted = apply_mapping(test_base16, mapping)
apply_step(themes, t, n, mapping) ==
    apply_mapping(get_base16(themes[t].theme), mapping)

ApplyMapping ==
    /\ nn_pc = "apply"
    /\ nn_locals' = [nn_locals EXCEPT
                        !.predicted = apply_step(nn_themes, nn_i,
                                                 nn_locals.best.neighbor,
                                                 nn_locals.mapping)]
    /\ nn_pc' = "compare"
    /\ UNCHANGED <<nn_dir, nn_themes, nn_i, nn_totals, nn_misses, nn_log, nn_report,
                   genVars, batchVars, concVars, fnVars>>

\* the loop variables after the comparison of an iteration gave g
Graded(g) ==
    /\ nn_log' = Append(nn_log, g)
    /\ nn_totals' = add_totals(nn_totals, g.results)
    /\ nn_misses' = nn_misses \o misses_of(g)

\* lines 221-244: compare with the held-out palette, add to the totals,
\* file the misses
Compare ==
    /\ nn_pc = "compare"
    /\ Graded(graded(nn_themes, nn_i, nn_locals,
                     compare_palettes(nn_locals.predicted,
                                      get_extended(nn_themes[nn_i].theme),
                                      STANDARD_FIELDS)))
    /\ nn_i' = nn_i + 1
    /\ nn_pc' = "loop"
    /\ nn_locals' = NoLocals
    /\ UNCHANGED <<nn_dir, nn_themes, nn_report, genVars, batchVars, concVars, fnVars>>

\* lines 246-264: the summary.  Line 255 divides by total_fields without a
\* guard: with no field graded the run ends in ZeroDivisionError before the
\* misses are reported.
NeighborSummary ==
    /\ nn_pc = "loop"
    /\ nn_i \notin 1..Len(nn_themes)
    /\ IF nn_totals.fields = 0
       THEN nn_pc' = "crashed" /\ nn_report' = nn_report
       ELSE nn_pc' = "done" /\ nn_report' = most_common(nn_misses, ReportedFields)
    /\ UNCHANGED <<nn_dir, nn_themes, nn_i, nn_locals, nn_totals, nn_misses, nn_log,
                   genVars, batchVars, concVars, fnVars>>

NextNeighbor ==
    \/ LoadThemes
    \/ FindNeighbor
    \/ LearnMapping
    \/ ApplyMapping
    \/ Compare
    \/ NeighborSummary

SpecNeighbor == InitNeighbor /\ [][NextNeighbor]_vars

(***************************************************************************)
(* find_base16_match of analyze_decision_boundaries.py, the slot matching  *)
(* of the rule learner, next to learn_mapping.                             *)
(***************************************************************************)
\* the acceptance threshold of find_base16_match: best_dist < 50
MatchThreshold == 50

\* best_match and best_dist (squared) of find_base16_match after the first
\* n keys of its loop
RECURSIVE find_match_upto(_, _, _)
find_match_upto(ext_color, base16, n) ==
    IF n = 0 THEN [match |-> 0, dist_sq |-> -1]
    ELSE closer(find_match_upto(ext_color, base16, n - 1), n,
                color_distance_sq(lower(ext_color),
                                  lower(slot_color(base16, base16_keys[n]))))

\* find_base16_match without the threshold
find_base16_match_any(ext_color, base16) ==
    base16_keys[find_match_upto(ext_color, base16, Len(base16_keys)).match]

\* find_base16_match: the closest slot, or None at a distance of 50 or more
find_base16_match(ext_color, base16) ==
    IF find_match_upto(ext_color, base16, Len(base16_keys)).dist_sq
           < MatchThreshold * MatchThreshold
    THEN base16_keys[find_match_upto(ext_color, base16, Len(base16_keys)).match]
    ELSE None

(***************************************************************************)
(* SpecMatch: one ground-truth color and one palette, handed to both       *)
(* learn_mapping (as the extended palette {probe: color}) and              *)
(* find_base16_match.                                                      *)
(***************************************************************************)
\* ground-truth colors at many distances from their closest slot, among
\* them exactly 50 and exactly 100
MatchColors ==
    {<<"#","B","F","6","1","6","A">>, <<"#","f","a","b","d","2","f">>,
     <<"#","8","3","a","5","d","8">>, <<"#","9","2","8","3","7","4">>,
     <<"#","0","0","f","f","0","0">>, <<"#","f","f","0","0","0","0">>,
     <<"#","F","E","8","A","1","9">>, <<"#","9","8","9","7","1","a">>,
     <<"#","f","f","f","f","f","f">>, <<"#","0","0","0","0","0","0">>,
     <<"#","0","5","0","5","0","5">>, <<"#","d","6","e","3","2","6">>,
     <<"#","f","4","f","7","2","6">>, <<"#","b","8","b","b","2","6">>,
     <<"#","B","8","B","B","2","6">>, <<"#","b","8","e","d","2","6">>,
     <<"#","b","8","1","f","2","6">>, <<"#","1","d","2","0","2","1">>,
     <<"#","3","b","4","2","5","2">>, <<"#","8","0","8","0","8","0">>,
     <<"#","d","6","5","d","0","e">>, <<"#","d","6","9","9","0","e">>,
     <<"#","d","6","c","1","0","e">>, <<"#","f","b","4","9","3","4">>,
     <<"#","c","9","4","9","3","4">>, <<"#","9","7","4","9","3","4">>,
     <<"#","8","8","c","0","d","0">>, <<"#","8","8","c","0","9","e">>,
     <<"#","8","8","c","0","6","c">>, <<"#","0","a","0","a","0","a">>,
     <<"#","1","e","1","e","1","e">>, <<"#","3","2","3","2","3","2">>,
     <<"#","0","0","3","8","8","6">>, <<"#","0","0","8","8","3","6">>,
     <<"#","1","4","3","8","5","4">>, <<"#","1","d","0","2","4","9">>}

MatchPalettes == {GruvboxDarkHard, NordLike, PartialPalette}

MatchArgs == [ext_color : MatchColors, base16 : MatchPalettes]

\* the extended palette with the one field "probe"
probe_palette(ext_color) == [f \in {"probe"} |-> ext_color]

InitMatch ==
    /\ fn_arg \in MatchArgs
    /\ fn_pc = "ready"
    /\ fn_res = <<>>
    /\ GenIdle
    /\ BatchIdle
    /\ ConcIdle
    /\ NeighborIdle

\* both functions are called on the color and the palette
MatchCall ==
    /\ fn_pc = "ready"
    /\ fn_res' = [mapping |-> learn_mapping(fn_arg.base16, probe_palette(fn_arg.ext_color)),
                  match |-> find_base16_match(fn_arg.ext_color, fn_arg.base16)]
    /\ fn_pc' = "returned"
    /\ UNCHANGED <<fn_arg, genVars, batchVars, concVars, nnVars>>

\* the caller goes on to another color and palette
MatchNext ==
    /\ fn_pc = "returned"
    /\ fn_arg' \in MatchArgs
    /\ fn_pc' = "ready"
    /\ fn_res' = <<>>
    /\ UNCHANGED <<genVars, batchVars, concVars, nnVars>>

NextMatch == MatchCall \/ MatchNext

SpecMatch == InitMatch /\ [][NextMatch]_vars

(***************************************************************************)
(* compare_palettes of generate_extended_rules.py.  Its loop runs over the *)
(* set `fields`, whose iteration order the language leaves open: the order *)
(* is an input (field_order lists every field once).                       *)
(***************************************************************************)
OPTIMIZED_FIELDS ==
    {"diagnostic_error", "diagnostic_ok",
     "diagnostic_warning", "diagnostic_info", "diagnostic_hint",
     "syntax_comment", "syntax_string", "syntax_function", "syntax_keyword",
     "syntax_type", "syntax_number", "syntax_constant",
     "ui_accent", "ui_border",
     "git_add", "git_change", "git_delete"}

\* the fields the loop does not skip, in loop order
compared_fields_rules(predicted, actual, fields, field_order) ==
    LET Kept(f) == /\ f \in fields
                   /\ ~(f \notin DOMAIN predicted \/ f \notin DOMAIN actual)
    IN  SelectSeq(field_order, Kept)

compare_palettes_rules(predicted, actual, fields, field_order) ==
    [exact |-> bucket_list(predicted, actual,
                           compared_fields_rules(predicted, actual, fields, field_order),
                           "exact"),
     close |-> bucket_list(predicted, actual,
                           compared_fields_rules(predicted, actual, fields, field_order),
                           "close"),
     different |-> bucket_list(predicted, actual,
                               compared_fields_rules(predicted, actual, fields, field_order),
                               "different")]

(***************************************************************************)
(* SpecCompare: both compare_palettes are called on a predicted and an     *)
(* actual palette over three fields and a field set.                       *)
(***************************************************************************)
\* one field of STANDARD_FIELDS and OPTIMIZED_FIELDS, one of STANDARD_FIELDS
\* only, one of neither
ComparedSample == {"diagnostic_error", "ui_selection", "terminal_cursor"}

Reversed(s) == [i \in 1..Len(s) |-> s[Len(s) + 1 - i]]

\* what the two palettes hold for one field: a field missing from the
\* predicted palette, from the actual palette, and pairs at the distances
\* 0, 0 up to letter case, 1, sqrt(99), 10 and 239
FieldCases ==
    {[predicted |-> <<>>, actual |-> <<"#","1","0","2","0","3","0">>],
     [predicted |-> <<"#","1","0","2","0","3","0">>, actual |-> <<>>],
     [predicted |-> <<"#","1","0","2","0","3","0">>, actual |-> <<"#","1","0","2","0","3","0">>],
     [predicted |-> <<"#","A","A","B","B","C","C">>, actual |-> <<"#","a","a","b","b","c","c">>],
     [predicted |-> <<"#","1","0","2","0","3","0">>, actual |-> <<"#","1","0","2","0","3","1">>],
     [predicted |-> <<"#","1","0","2","0","3","0">>, actual |-> <<"#","1","7","2","7","3","1">>],
     [predicted |-> <<"#","1","0","2","0","3","0">>, actual |-> <<"#","1","a","2","0","3","0">>],
     [predicted |-> <<"#","1","0","2","0","3","0">>, actual |-> <<"#","f","f","2","0","3","0">>]}

\* the field sets main() passes, and smaller ones
FieldSets ==
    {STANDARD_FIELDS, OPTIMIZED_FIELDS, {"ui_selection"},
     {"terminal_cursor", "diagnostic_error", "ui_selection"}}

predicted_of(cases) ==
    [f \in {g \in DOMAIN cases : cases[g].predicted # <<>>} |-> cases[f].predicted]

actual_of(cases) ==
    [f \in {g \in DOMAIN cases : cases[g].actual # <<>>} |-> cases[f].actual]

\* generate_extended_palette.py is called with a non-empty field set, as
\* main() calls it (an empty or omitted set makes it compare every field);
\* generate_extended_rules.py also with the empty set, and with its set
\* iterated in either direction
InitCompare ==
    /\ \E cases \in [ComparedSample -> FieldCases] :
       \E fields \in FieldSets \cup {{}} :
       \E version \in {"palette", "rules"} :
       \E field_order \in {FieldOrder, Reversed(FieldOrder)} :
          /\ version = "palette" => (fields # {} /\ field_order = FieldOrder)
          /\ fn_arg = [version |-> version,
                       predicted |-> predicted_of(cases),
                       actual |-> actual_of(cases),
                       fields |-> fields,
                       field_order |-> field_order]
    /\ fn_pc = "ready"
    /\ fn_res = <<>>
    /\ GenIdle
    /\ BatchIdle
    /\ ConcIdle
    /\ NeighborIdle

\* results = compare_palettes(predicted, actual_extended, fields) of
\* generate_extended_palette.py
ComparePalette ==
    /\ fn_pc = "ready"
    /\ fn_arg.version = "palette"
    /\ fn_res' = compare_palettes(fn_arg.predicted, fn_arg.actual, fn_arg.fields)
    /\ fn_pc' = "returned"
    /\ UNCHANGED <<fn_arg, genVars, batchVars, concVars, nnVars>>

\* results = compare_palettes(predicted, actual, fields) of
\* generate_extended_rules.py
CompareRules ==
    /\ fn_pc = "ready"
    /\ fn_arg.version = "rules"
    /\ fn_res' = compare_palettes_rules(fn_arg.predicted, fn_arg.actual,
                                        fn_arg.fields, fn_arg.field_order)
    /\ fn_pc' = "returned"
    /\ UNCHANGED <<fn_arg, genVars, batchVars, concVars, nnVars>>

NextCompare == ComparePalette \/ CompareRules

SpecCompare == InitCompare /\ [][NextCompare]_vars

(***************************************************************************)
(* SpecHex: hex_to_rgb is called on a string.                              *)
(***************************************************************************)
\* the longest string body handed to hex_to_rgb
MaxHexLen == 7

\* a digit, an upper-case hex letter and a letter that is no hex digit
HexAlphabet == {"1", "F", "g"}

\* the leading '#' characters of an input: none, one, two
HashPrefixes == {<<>>, <<"#">>, <<"#", "#">>}

\* strings of six characters with signs and blanks among hex digits
SignedAndPadded ==
    {<<"+","f","+","f","+","f">>, <<"-","1","-","2","-","3">>,
     <<" ","1"," ","2"," ","3">>, <<"1"," ","2"," ","3"," ">>,
     <<"1","+","2","3","4","5">>, <<"1","1","2","2","+"," ">>}

HexInputs ==
    {p \o b : p \in HashPrefixes,
              b \in UNION {[1..n -> HexAlphabet] : n \in 0..MaxHexLen}
                    \cup SignedAndPadded}

InitHex ==
    /\ fn_arg \in HexInputs
    /\ fn_pc = "ready"
    /\ fn_res = <<>>
    /\ GenIdle
    /\ BatchIdle
    /\ ConcIdle
    /\ NeighborIdle

\* hex_to_rgb returns the three channels
HexToRgbReturns ==
    /\ fn_pc = "ready"
    /\ ~hex_to_rgb_raises(fn_arg)
    /\ fn_res' = hex_to_rgb(fn_arg)
    /\ fn_pc' = "returned"
    /\ UNCHANGED <<fn_arg, genVars, batchVars, concVars, nnVars>>

\* one of the three int(..., 16) raises ValueError, which hex_to_rgb does
\* not catch
HexToRgbRaises ==
    /\ fn_pc = "ready"
    /\ hex_to_rgb_raises(fn_arg)
    /\ fn_res' = <<>>
    /\ fn_pc' = "raised"
    /\ UNCHANGED <<fn_arg, genVars, batchVars, concVars, nnVars>>

NextHex == HexToRgbReturns \/ HexToRgbRaises

SpecHex == InitHex /\ [][NextHex]_vars

(***************************************************************************)
(* SpecDist: color_distance is called on two valid colors, in both orders  *)
(* and on each color with itself.                                          *)
(***************************************************************************)
\* valid colors: six hex digits, in either letter case, with or without '#'
DistColors ==
    {<<"#","0","0","0","0","0","0">>, <<"#","f","f","f","f","f","f">>,
     <<"#","F","F","F","F","F","F">>, <<"f","f","f","f","f","f">>,
     <<"#","1","0","2","0","3","0">>, <<"#","1","0","2","0","3","1">>,
     <<"#","3","0","2","0","1","0">>, <<"#","f","b","4","9","3","4">>,
     <<"#","F","B","4","9","3","4">>, <<"#","0","0","f","f","0","0">>,
     <<"#","f","f","0","0","0","0">>, <<"#","0","0","0","0","f","f">>,
     <<"#","8","0","8","0","8","0">>, <<"#","7","f","7","f","7","f">>}

InitDist ==
    /\ fn_arg \in [a : DistColors, b : DistColors]
    /\ fn_pc = "ready"
    /\ fn_res = <<>>
    /\ GenIdle
    /\ BatchIdle
    /\ ConcIdle
    /\ NeighborIdle

DistCall ==
    /\ fn_pc = "ready"
    /\ fn_res' = [ab |-> color_distance(fn_arg.a, fn_arg.b),
                  ba |-> color_distance(fn_arg.b, fn_arg.a),
                  aa |-> color_distance(fn_arg.a, fn_arg.a),
                  bb |-> color_distance(fn_arg.b, fn_arg.b)]
    /\ fn_pc' = "returned"
    /\ UNCHANGED <<fn_arg, genVars, batchVars, concVars, nnVars>>

DistNext ==
    /\ fn_pc = "returned"
    /\ fn_arg' \in [a : DistColors, b : DistColors]
    /\ fn_pc' = "ready"
    /\ fn_res' = <<>>
    /\ UNCHANGED <<genVars, batchVars, concVars, nnVars>>

NextDist == DistCall \/ DistNext

SpecDist == InitDist /\ [][NextDist]_vars

(***************************************************************************)
(* rgb_to_hex of analyze_extended_palettes.py, and SpecRoundTrip: a triple *)
(* of channels is formatted and parsed back.                               *)
(***************************************************************************)
\* format(n, 'x'): the hex digits of n, lower case, no leading zero
RECURSIVE format_x(_)
format_x(n) ==
    IF n < 16 THEN <<LowerHexDigits[n + 1]>>
    ELSE format_x(n \div 16) \o <<LowerHexDigits[(n % 16) + 1]>>

\* zero padding on the left up to a width
RECURSIVE zero_pad(_, _)
zero_pad(s, width) == IF Len(s) >= width THEN s ELSE zero_pad(<<"0">> \o s, width)

\* the format spec 02x without its width
format_02x_unpadded(n) == format_x(n)

\* f"{n:02x}"
format_02x(n) == zero_pad(format_x(n), 2)

\* f"#{r:02x}{g:02x}{b:02x}"
rgb_to_hex(r, g, b) == <<"#">> \o format_02x(r) \o format_02x(g) \o format_02x(b)

\* channel values around the one-digit / two-digit limit and the ends
ChannelSample == {0, 1, 9, 10, 15, 16, 17, 127, 128, 160, 254, 255}

InitRoundTrip ==
    /\ fn_arg \in ChannelSample \X ChannelSample \X ChannelSample
    /\ fn_pc = "ready"
    /\ fn_res = <<>>
    /\ GenIdle
    /\ BatchIdle
    /\ ConcIdle
    /\ NeighborIdle

\* rgb_to_hex(r, g, b)
Format ==
    /\ fn_pc = "ready"
    /\ fn_res' = rgb_to_hex(fn_arg[1], fn_arg[2], fn_arg[3])
    /\ fn_pc' = "formatted"
    /\ UNCHANGED <<fn_arg, genVars, batchVars, concVars, nnVars>>

\* hex_to_rgb of the formatted string
Parse ==
    /\ fn_pc = "formatted"
    /\ IF hex_to_rgb_raises(fn_res)
       THEN fn_pc' = "raised" /\ fn_res' = fn_res
       ELSE fn_pc' = "returned" /\ fn_res' = hex_to_rgb(fn_res)
    /\ UNCHANGED <<fn_arg, genVars, batchVars, concVars, nnVars>>

NextRoundTrip == Format \/ Parse

SpecRoundTrip == InitRoundTrip /\ [][NextRoundTrip]_vars

(***************************************************************************)
(* generate_extended_rules of generate_extended_rules.py: the frozen rules *)
(* as the validation script spells them                                    *)
(***************************************************************************)
\* the difference of two fractions
frac_sub(a, b) == [n |-> a.n * b.d - b.n * a.d, d |-> a.d * b.d, up |-> FALSE]

\* extract_features raises: hex_to_hsl is applied to all sixteen colors
extract_features_rules_raises(base16) ==
    \E k \in Slots : hex_to_rgb_raises(slot_color(base16, k))

\* the eleven features of generate_extended_rules.py
extract_features_rules(base16) ==
    [dist_0B_0C |-> color_distance_sq(slot_color(base16, "base0B"),
                                      slot_color(base16, "base0C")),
     dist_09_0A |-> color_distance_sq(slot_color(base16, "base09"),
                                      slot_color(base16, "base0A")),
     dist_0D_0C |-> color_distance_sq(slot_color(base16, "base0D"),
                                      slot_color(base16, "base0C")),
     dist_0D_0E |-> color_distance_sq(slot_color(base16, "base0D"),
                                      slot_color(base16, "base0E")),
     hue_0B |-> hex_to_hsl(slot_color(base16, "base0B")).hue,
     hue_0C |-> hex_to_hsl(slot_color(base16, "base0C")).hue,
     hue_0D |-> hex_to_hsl(slot_color(base16, "base0D")).hue,
     sat_08 |-> hex_to_hsl(slot_color(base16, "base08")).sat,
     sat_0B |-> hex_to_hsl(slot_color(base16, "base0B")).sat,
     sat_0B_vs_0C |-> frac_sub(hex_to_hsl(slot_color(base16, "base0B")).sat,
                               hex_to_hsl(slot_color(base16, "base0C")).sat),
     sat_09_vs_0A |-> frac_sub(hex_to_hsl(slot_color(base16, "base09")).sat,
                               hex_to_hsl(slot_color(base16, "base0A")).sat)]

\* the fields generate_extended_rules assigns, in the order of its statements
RulesFields ==
    {"diagnostic_error", "diagnostic_ok", "diagnostic_warning",
     "diagnostic_info", "diagnostic_hint", "syntax_comment",
     "syntax_string", "syntax_function", "syntax_keyword", "syntax_type",
     "syntax_number", "syntax_constant", "syntax_operator",
     "syntax_variable", "syntax_parameter", "syntax_preproc",
     "syntax_special", "ui_accent", "ui_border", "ui_selection",
     "ui_float_bg", "ui_cursor_line", "git_add", "git_change",
     "git_delete"}

\* rules_slot with the syntax_type rule cut at 76.1 instead of 69.6
rules_slot_type_at_761(field, feat) ==
    CASE field = "diagnostic_error" -> "base08"
      [] field = "diagnostic_ok" -> "base0B"
      [] field = "diagnostic_warning" ->
            IF DistGt(feat.dist_0B_0C, 840) THEN "base09" ELSE "base0A"
      [] field = "diagnostic_info" ->
            IF FracGt(feat.sat_08, 761) THEN "base0D" ELSE "base0C"
      [] field = "diagnostic_hint" ->
            IF DistLt(feat.dist_0B_0C, 1123) THEN "base0C" ELSE "base0E"
      [] field = "syntax_comment" ->
            IF DistGt(feat.dist_0D_0C, 499) THEN "base03" ELSE "base04"
      [] field = "syntax_string" ->
            IF DistLt(feat.dist_0B_0C, 1123) THEN "base0B" ELSE "base0C"
      [] field = "syntax_function" ->
            IF DistGt(feat.dist_0D_0C, 499) THEN "base0D" ELSE "base09"
      [] field = "syntax_keyword" ->
            IF DistLt(feat.dist_0B_0C, 1123) THEN "base0E" ELSE "base0B"
      [] field = "syntax_type" ->
            IF FracGt(feat.sat_08, 761) THEN "base0A" ELSE "base0C"
      [] field = "syntax_number" ->
            IF FracLt(feat.hue_0B, 1042) THEN "base0E" ELSE "base09"
      [] field = "syntax_constant" ->
            IF FracGt(feat.hue_0B, 853) THEN "base09" ELSE "base0A"
      [] field = "syntax_operator" -> "base04"
      [] field = "syntax_variable" -> "base05"
      [] field = "syntax_parameter" -> "base0D"
      [] field = "syntax_preproc" -> "base0E"
      [] field = "syntax_special" -> "base0C"
      [] field = "ui_accent" ->
            IF FracGt(feat.sat_08, 696) THEN "base0D" ELSE "base0C"
      [] field = "ui_border" ->
            IF FracGt(feat.sat_08, 696) THEN "base02" ELSE "base03"
      [] field = "ui_selection" -> "base02"
      [] field = "ui_float_bg" -> "base01"
      [] field = "ui_cursor_line" -> "base01"
      [] field = "git_add" -> "base0B"
      [] field = "git_change" ->
            IF DistLt(feat.dist_0B_0C, 1543) THEN "base0A" ELSE "base09"
      [] field = "git_delete" -> "base08"

\* the if / else of each field of generate_extended_rules: the slot read
rules_slot(field, feat) ==
    CASE field = "diagnostic_error" -> "base08"
      [] field = "diagnostic_ok" -> "base0B"
      [] field = "diagnostic_warning" ->
            IF DistGt(feat.dist_0B_0C, 840) THEN "base09" ELSE "base0A"
      [] field = "diagnostic_info" ->
            IF FracGt(feat.sat_08, 761) THEN "base0D" ELSE "base0C"
      [] field = "diagnostic_hint" ->
            IF DistLt(feat.dist_0B_0C, 1123) THEN "base0C" ELSE "base0E"
      [] field = "syntax_comment" ->
            IF DistGt(feat.dist_0D_0C, 499) THEN "base03" ELSE "base04"
      [] field = "syntax_string" ->
            IF DistLt(feat.dist_0B_0C, 1123) THEN "base0B" ELSE "base0C"
      [] field = "syntax_function" ->
            IF DistGt(feat.dist_0D_0C, 499) THEN "base0D" ELSE "base09"
      [] field = "syntax_keyword" ->
            IF DistLt(feat.dist_0B_0C, 1123) THEN "base0E" ELSE "base0B"
      [] field = "syntax_type" ->
            IF FracGt(feat.sat_08, 696) THEN "base0A" ELSE "base0C"
      [] field = "syntax_number" ->
            IF FracLt(feat.hue_0B, 1042) THEN "base0E" ELSE "base09"
      [] field = "syntax_constant" ->
            IF FracGt(feat.hue_0B, 853) THEN "base09" ELSE "base0A"
      [] field = "syntax_operator" -> "base04"
      [] field = "syntax_variable" -> "base05"
      [] field = "syntax_parameter" -> "base0D"
      [] field = "syntax_preproc" -> "base0E"
      [] field = "syntax_special" -> "base0C"
      [] field = "ui_accent" ->
            IF FracGt(feat.sat_08, 696) THEN "base0D" ELSE "base0C"
      [] field = "ui_border" ->
            IF FracGt(feat.sat_08, 696) THEN "base02" ELSE "base03"
      [] field = "ui_selection" -> "base02"
      [] field = "ui_float_bg" -> "base01"
      [] field = "ui_cursor_line" -> "base01"
      [] field = "git_add" -> "base0B"
      [] field = "git_change" ->
            IF DistLt(feat.dist_0B_0C, 1543) THEN "base0A" ELSE "base09"
      [] field = "git_delete" -> "base08"

generate_extended_rules_raises(base16) == extract_features_rules_raises(base16)

\* extended[field] = get(slot), get(name) being base16.get(name, '#000000').lower()
generate_extended_rules(base16) ==
    [field \in RulesFields |->
        lower(slot_color(base16, rules_slot(field, extract_features_rules(base16))))]

(***************************************************************************)
(* SpecAgree: generate_extended of the batch script and                    *)
(* generate_extended_rules of the validation script are called on the      *)
(* same palette.                                                           *)
(***************************************************************************)
InitAgree ==
    /\ fn_arg \in GenPalettes
    /\ fn_pc = "ready"
    /\ fn_res = <<>>
    /\ GenIdle
    /\ BatchIdle
    /\ ConcIdle
    /\ NeighborIdle

\* generate_extended(base16) of generate_all_extended.py
CallBatchRules ==
    /\ fn_pc = "ready"
    /\ fn_res' = [batch |-> IF generate_extended_raises(fn_arg)
                            THEN [raised |-> TRUE, extended |-> EmptyDict]
                            ELSE [raised |-> FALSE, extended |-> generate_extended(fn_arg)]]
    /\ fn_pc' = "batch_done"
    /\ UNCHANGED <<fn_arg, genVars, batchVars, concVars, nnVars>>

\* generate_extended_rules(base16) of generate_extended_rules.py
CallValidationRules ==
    /\ fn_pc = "batch_done"
    /\ fn_res' = [batch |-> fn_res.batch,
                  rules |-> IF generate_extended_rules_raises(fn_arg)
                            THEN [raised |-> TRUE, extended |-> EmptyDict]
                            ELSE [raised |-> FALSE,
                                  extended |-> generate_extended_rules(fn_arg)]]
    /\ fn_pc' = "returned"
    /\ UNCHANGED <<fn_arg, genVars, batchVars, concVars, nnVars>>

NextAgree == CallBatchRules \/ CallValidationRules

SpecAgree == InitAgree /\ [][NextAgree]_vars

(***************************************************************************)
(* SpecIndep: generate_extended is called on two valid palettes, the       *)
(* second made from the first by changing some of its slots.               *)
(***************************************************************************)
\* the slots changed between the two palettes, and their new colors
SlotEdits ==
    {<<>>,
     [base00 |-> <<"#","f","f","f","f","f","f">>],
     [base06 |-> <<"#","1","2","3","4","5","6">>,
      base07 |-> <<"#","A","B","C","D","E","F">>,
      base0F |-> <<"#","0","0","0","0","0","0">>],
     [base00 |-> <<"#","0","0","0","0","0","0">>,
      base06 |-> <<"#","f","f","f","f","f","f">>,
      base07 |-> <<"#","1","d","2","0","2","1">>,
      base0F |-> <<"#","F","E","8","0","1","9">>],
     [base05 |-> <<"#","f","f","f","f","f","f">>],
     [base09 |-> <<"#","1","2","3","4","5","6">>,
      base0E |-> <<"#","A","B","C","D","E","F">>],
     [base0C |-> <<"#","0","0","0","0","0","0">>],
     [base08 |-> <<"#","8","0","8","0","8","0">>,
      base00 |-> <<"#","f","f","f","f","f","f">>]}

edited(base16, edit) ==
    [k \in DOMAIN base16 |-> IF k \in DOMAIN edit THEN edit[k] ELSE base16[k]]

InitIndep ==
    /\ \E base16 \in ValidPalettes : \E edit \in SlotEdits :
          fn_arg = [first |-> base16, second |-> edited(base16, edit)]
    /\ fn_pc = "ready"
    /\ fn_res = <<>>
    /\ GenIdle
    /\ BatchIdle
    /\ ConcIdle
    /\ NeighborIdle

\* generate_extended on the first palette
GenerateFirst ==
    /\ fn_pc = "ready"
    /\ fn_res' = [first |-> generate_extended(fn_arg.first)]
    /\ fn_pc' = "first_done"
    /\ UNCHANGED <<fn_arg, genVars, batchVars, concVars, nnVars>>

\* generate_extended on the second palette
GenerateSecond ==
    /\ fn_pc = "first_done"
    /\ fn_res' = [first |-> fn_res.first, second |-> generate_extended(fn_arg.second)]
    /\ fn_pc' = "returned"
    /\ UNCHANGED <<fn_arg, genVars, batchVars, concVars, nnVars>>

NextIndep == GenerateFirst \/ GenerateSecond

SpecIndep == InitIndep /\ [][NextIndep]_vars

(***************************************************************************)
(* SpecTwice: main() of generate_all_extended.py is run twice in a row     *)
(* with the same command line, without --dry-run, over a corpus.  fn_arg   *)
(* keeps the corpus the first run started from, fn_res what each run left. *)
(***************************************************************************)
\* the command lines without --dry-run
WritingFlags == {a \in Flags : ~a.dry_run}

InitTwice ==
    /\ \E kinds \in [ThemeIds -> ThemeKinds] :
          corpus = [i \in ThemeIds |-> FileOfKind(i, kinds[i])]
    /\ pc = "idle"
    /\ args = [mark_existing |-> FALSE, regenerate |-> FALSE, dry_run |-> FALSE]
    /\ idx = 0
    /\ stats = ZeroStats
    /\ before = corpus
    /\ writes = {}
    /\ fn_arg = corpus
    /\ fn_pc = "unused"
    /\ fn_res = <<>>
    /\ GenIdle
    /\ ConcIdle
    /\ NeighborIdle

\* the variables after one whole run that ended as `run`
Ran(run) ==
    /\ corpus' = run.corpus
    /\ stats' = run.stats
    /\ writes' = run.writes
    /\ before' = corpus
    /\ idx' = Len(corpus) + 1
    /\ fn_res' = Append(fn_res, run)

\* python generate_all_extended.py [--mark-existing] [--regenerate]
FirstRun(a) ==
    /\ pc = "idle"
    /\ args' = a
    /\ Ran(main(corpus, a))
    /\ pc' = "ran"
    /\ UNCHANGED <<fn_arg, fn_pc, genVars, concVars, nnVars>>

\* the same command again
SecondRun ==
    /\ pc = "ran"
    /\ args' = args
    /\ Ran(main(corpus, args))
    /\ pc' = "ran_twice"
    /\ UNCHANGED <<fn_arg, fn_pc, genVars, concVars, nnVars>>

NextTwice ==
    \/ \E a \in WritingFlags : FirstRun(a)
    \/ SecondRun

SpecTwice == InitTwice /\ [][NextTwice]_vars

(***************************************************************************)
(* The rule learner: analyze_decision_boundaries.py, the loop of main()    *)
(* over FIELDS.  field_data is the list of the themes that have a          *)
(* slot-derived ground truth for the field: their features and the slot    *)
(* find_base16_match gave.  A feature value is a float; it is written as   *)
(* its place on the grid of floats around the observed values, counted in  *)
(* units in the last place from a float whose significand is even, so that *)
(* two values one apart are neighbouring floats.                           *)
(***************************************************************************)
\* list(data[0]['features'].keys()): the keys of extract_features in order
feature_names == <<"dist_0B_0C", "dist_09_0A", "dist_0D_0C", "hue_0B",
                   "hue_0C", "sat_08", "sat_0B">>

\* the slot choices of field_data in the order choice_counts first meets them
choices_seen(field_data) == Dedup([i \in 1..Len(field_data) |-> field_data[i].mapping])

\* choice_counts[m]
choice_count(field_data, m) ==
    Cardinality({i \in 1..Len(field_data) : field_data[i].mapping = m})

\* sorted(choice_counts.items(), key=lambda x: -x[1]): the sort is stable,
\* choices with the same count stay in the order they were first met
sorted_choices(field_data) ==
    LET seen == choices_seen(field_data)
        Before(i, j) ==
            \/ choice_count(field_data, seen[i]) > choice_count(field_data, seen[j])
            \/ /\ choice_count(field_data, seen[i]) = choice_count(field_data, seen[j])
               /\ i < j
        place(j) == 1 + Cardinality({i \in 1..Len(seen) : Before(i, j)})
    IN  [k \in 1..Len(seen) |-> seen[CHOOSE j \in 1..Len(seen) : place(j) = k]]

\* lines 124-139 with `< 5` and `< 2` dropped: every field is searched
field_is_searched_always(field_data) == Len(sorted_choices(field_data)) >= 2

\* lines 124-139: the three `continue` tests before the search
field_is_searched(field_data) ==
    /\ ~(Len(field_data) < 5)
    /\ ~(Len(choices_seen(field_data)) < 2)
    /\ ~(choice_count(field_data, sorted_choices(field_data)[2]) < 2)

\* (all_values[i] + all_values[i+1]) / 2 in floats: the sum of two floats of
\* one binade is rounded to an even significand, the halving is exact
midpoint(lo, hi) ==
    IF (lo + hi) % 2 = 0 THEN (lo + hi) \div 2
    ELSE IF ((lo + hi - 1) \div 2) % 2 = 0 THEN (lo + hi - 1) \div 2
    ELSE (lo + hi + 1) \div 2

\* sorted(set(values_a + values_b))
RECURSIVE sorted_values(_)
sorted_values(S) ==
    IF S = {} THEN <<>>
    ELSE LET least == CHOOSE v \in S : \A w \in S : v <= w
         IN  <<least>> \o sorted_values(S \ {least})

\* [f[feat] for f, m, _ in field_data if m == choice]
values_of(field_data, feat, choice) ==
    {field_data[i].features[feat] :
        i \in {j \in 1..Len(field_data) : field_data[j].mapping = choice}}

\* lines 163-167: the thresholds of one feature, each with '>' then '<'
candidates_of(field_data, feat, choice_a, choice_b) ==
    LET values_a == values_of(field_data, feat, choice_a)
        values_b == values_of(field_data, feat, choice_b)
        all_values == sorted_values(values_a \cup values_b)
    IN  IF values_a = {} \/ values_b = {} THEN <<>>
        ELSE [j \in 1..(2 * (Len(all_values) - 1)) |->
                [feat |-> feat,
                 thresh |-> midpoint(all_values[(j + 1) \div 2],
                                     all_values[(j + 1) \div 2 + 1]),
                 direction |-> IF j % 2 = 1 THEN ">" ELSE "<"]]

\* lines 153-167: the candidates in the order the three loops visit them
RECURSIVE candidates_from(_, _, _, _)
candidates_from(field_data, k, choice_a, choice_b) ==
    IF k > Len(feature_names) THEN <<>>
    ELSE candidates_of(field_data, feature_names[k], choice_a, choice_b)
             \o candidates_from(field_data, k + 1, choice_a, choice_b)

\* lines 175-178
pred(direction, val, thresh, choice_a, choice_b) ==
    IF direction = ">"
    THEN IF val > thresh THEN choice_a ELSE choice_b
    ELSE IF val < thresh THEN choice_a ELSE choice_b

\* lines 170-173: the themes whose choice is one of the two
considered(field_data, choice_a, choice_b) ==
    {i \in 1..Len(field_data) : field_data[i].mapping \in {choice_a, choice_b}}

\* lines 168-180: correct
correct_of(field_data, cand, choice_a, choice_b) ==
    Cardinality({i \in considered(field_data, choice_a, choice_b) :
        pred(cand.direction, field_data[i].features[cand.feat], cand.thresh,
             choice_a, choice_b) = field_data[i].mapping})

\* the update of line 184 with `>=`: the last of the best candidates wins
better_or_equal(acc, best_accuracy) == acc >= best_accuracy

\* line 184, `acc > best_accuracy`: both are correct / total with the same
\* total, so the counts of correct themes are compared
better(acc, best_accuracy) == acc > best_accuracy

\* lines 150-186: the search through the candidates from the k-th on
RECURSIVE search_from(_, _, _, _, _, _)
search_from(field_data, cands, k, choice_a, choice_b, best) ==
    IF k > Len(cands) THEN best
    ELSE LET correct == correct_of(field_data, cands[k], choice_a, choice_b)
             total == Cardinality(considered(field_data, choice_a, choice_b))
         IN  search_from(field_data, cands, k + 1, choice_a, choice_b,
                 IF total > 0 /\ better(correct, best.correct)
                 THEN [correct |-> correct, best_rule |-> cands[k]]
                 ELSE best)

\* best_rule = None
NoRule == [feat |-> None, thresh |-> 0, direction |-> None]

NotSearched ==
    [searched |-> FALSE, choice_a |-> None, choice_b |-> None,
     total |-> 0, correct |-> 0, best_rule |-> NoRule]

\* lines 119-186: one iteration of the loop over FIELDS
analyse_field(field_data) ==
    IF ~field_is_searched(field_data) THEN NotSearched
    ELSE LET choice_a == sorted_choices(field_data)[1]
             choice_b == sorted_choices(field_data)[2]
             best == search_from(field_data,
                                 candidates_from(field_data, 1, choice_a, choice_b),
                                 1, choice_a, choice_b,
                                 [correct |-> 0, best_rule |-> NoRule])
         IN  [searched |-> TRUE, choice_a |-> choice_a, choice_b |-> choice_b,
              total |-> Cardinality(considered(field_data, choice_a, choice_b)),
              correct |-> best.correct, best_rule |-> best.best_rule]

\* analyze_mapping_features.py line 186: `> 0.85`
DominancePercent == 85

\* analyze_mapping_features.py lines 178-187: the field's features are
\* compared unless one choice only occurs or the first choice has more than
\* 85% of the themes
features_are_compared(field_data) ==
    /\ ~(Len(choices_seen(field_data)) < 2)
    /\ ~(choice_count(field_data, sorted_choices(field_data)[1]) * 100
            > DominancePercent * Len(field_data))

(***************************************************************************)
(* SpecLearn: one field of a corpus goes through the rule learner, then    *)
(* through the feature comparison.  The corpus is three groups of equal    *)
(* themes in directory order; two features vary over it.                   *)
(***************************************************************************)
\* the size of a group with a dominant slot choice
BigGroup == 17

GroupSizes == {1, 2, 3, BigGroup}

\* the features of a theme whose dist_0B_0C is x and whose hue_0C is y
Profile(x, y) ==
    [f \in {feature_names[k] : k \in 1..Len(feature_names)} |->
        IF f = "dist_0B_0C" THEN x ELSE IF f = "hue_0C" THEN y ELSE 0]

\* the places on the grid of floats the sample uses
GridValues == 0..4

\* hue_0C takes three neighbouring floats, dist_0B_0C two floats far apart
Profiles == {Profile(x, y) : x \in {0, 4}, y \in {0, 1, 2}}

TwoChoiceGroups ==
    [features : Profiles, mapping : {"base09", "base0A"}, size : GroupSizes]

ThirdGroups ==
    [features : {Profile(0, 0)}, mapping : {"base0E"}, size : GroupSizes \cup {0}]
        \cup {g \in TwoChoiceGroups : g.size <= 2}

Repeat(g) == [i \in 1..g.size |-> [features |-> g.features, mapping |-> g.mapping]]

InitLearn ==
    /\ \E g1 \in TwoChoiceGroups, g2 \in TwoChoiceGroups, g3 \in ThirdGroups :
          fn_arg = Repeat(g1) \o Repeat(g2) \o Repeat(g3)
    /\ fn_pc = "ready"
    /\ fn_res = <<>>
    /\ GenIdle
    /\ BatchIdle
    /\ ConcIdle
    /\ NeighborIdle

\* analyze_decision_boundaries.py: the loop body for the field
AnalyseField ==
    /\ fn_pc = "ready"
    /\ fn_res' = [boundaries |-> analyse_field(fn_arg)]
    /\ fn_pc' = "analysed"
    /\ UNCHANGED <<fn_arg, genVars, batchVars, concVars, nnVars>>

\* analyze_mapping_features.py: the loop body for the field
CompareFeatures ==
    /\ fn_pc = "analysed"
    /\ fn_res' = [boundaries |-> fn_res.boundaries,
                  compared |-> features_are_compared(fn_arg)]
    /\ fn_pc' = "compared"
    /\ UNCHANGED <<fn_arg, genVars, batchVars, concVars, nnVars>>

NextLearn ==
    \/ AnalyseField
    \/ CompareFeatures

SpecLearn == InitLearn /\ [][NextLearn]_vars

(***************************************************************************)
(* The Neovim colorscheme generator: src/lib/neovim_generator.py,          *)
(* generate_colorscheme.  The output directory is a function from paths to *)
(* file contents; a path is the tuple of its parts, a slug or module name  *)
(* the tuple of its characters, a generated content the record of what it  *)
(* was generated from.                                                    *)
(***************************************************************************)
\* slug.replace("-", "_")
slug_to_module(slug) == [i \in 1..Len(slug) |-> IF slug[i] = "-" THEN "_" ELSE slug[i]]

\* no file at the path
NoFile == [kind |-> "no file"]

\* meta.get("id", theme_path.parent.name)
slug_of(theme_file) ==
    IF theme_file.has_id THEN theme_file.id ELSE theme_file.dir_name

\* meta.get("display_name", slug)
name_of(theme_file) ==
    IF theme_file.has_display_name THEN theme_file.display_name ELSE slug_of(theme_file)

\* lua_dir / "overrides.lua"
overrides_path(module_name) == <<"lua", module_name, "overrides.lua">>

\* generate_overrides_lua(name)
generate_overrides_lua(name) == [kind |-> "overrides.lua", theme_name |-> name]

\* lines 1444-1454: the files dict, path by path
generated_files(theme_file) ==
    LET slug == slug_of(theme_file)
        name == name_of(theme_file)
        module_name == slug_to_module(slug)
    IN  [p \in {<<"lua", module_name, "init.lua">>,
                <<"lua", module_name, "palette.lua">>,
                <<"lua", module_name, "highlights", "init.lua">>,
                <<"lua", module_name, "highlights", "editor.lua">>,
                <<"lua", module_name, "highlights", "syntax.lua">>,
                <<"lua", module_name, "highlights", "treesitter.lua">>,
                <<"lua", module_name, "highlights", "lsp.lua">>,
                <<"lua", module_name, "highlights", "plugins.lua">>,
                <<"colors", slug, ".lua">>} |->
        IF p = <<"lua", module_name, "init.lua">>
        THEN [kind |-> "init.lua", module_name |-> module_name,
              theme_name |-> name, colorscheme_name |-> slug]
        ELSE IF p = <<"lua", module_name, "palette.lua">>
        THEN [kind |-> "palette.lua", theme |-> theme_file.sections]
        ELSE IF p = <<"lua", module_name, "highlights", "init.lua">>
        THEN [kind |-> "highlights/init.lua", module_name |-> module_name]
        ELSE IF p = <<"colors", slug, ".lua">>
        THEN [kind |-> "colors entry point", module_name |-> module_name]
        ELSE [kind |-> p[4]]]

\* the test of line 1463 answering that the file is never there
path_exists_never(output_dir, p) == FALSE

\* overrides_path.exists()
path_exists(output_dir, p) == output_dir[p] # NoFile

\* generate_colorscheme(theme_path, output_dir): the output directory it
\* leaves, the paths it opened for writing, and whether an exception
\* escaped.  A theme.yml that loads as None makes theme.get raise before
\* anything is written.
generate_colorscheme(theme_file, output_dir) ==
    IF ~theme_file.is_dict
    THEN [output_dir |-> output_dir, written |-> {}, preserved |-> {}, raised |-> TRUE]
    ELSE LET files == generated_files(theme_file)
             overrides == overrides_path(slug_to_module(slug_of(theme_file)))
             create == ~path_exists(output_dir, overrides)
         IN  [output_dir |->
                 [p \in DOMAIN output_dir |->
                     IF p \in DOMAIN files THEN files[p]
                     ELSE IF p = overrides /\ create
                     THEN generate_overrides_lua(name_of(theme_file))
                     ELSE output_dir[p]],
              written |-> DOMAIN files \cup (IF create THEN {overrides} ELSE {}),
              preserved |-> IF create THEN {} ELSE {overrides},
              raised |-> FALSE]

(***************************************************************************)
(* SpecColors: generate_colorscheme runs any number of times on one output *)
(* directory, for theme.yml files that change between the runs, while the  *)
(* user edits or removes files in between.  fn_arg is the output           *)
(* directory, fn_res the last run.                                         *)
(***************************************************************************)
ThemeFile(dir_name, is_dict, has_id, id, has_display_name, display_name, sections) ==
    [dir_name |-> dir_name, is_dict |-> is_dict, has_id |-> has_id, id |-> id,
     has_display_name |-> has_display_name, display_name |-> display_name,
     sections |-> sections]

\* themes/r-p/theme.yml as written, with its display name and palette
\* edited, with its id edited to r_p; themes/n/theme.yml without meta; an
\* empty theme.yml
ThemeFiles ==
    {ThemeFile(<<"r", "-", "p">>, TRUE, TRUE, <<"r", "-", "p">>, TRUE, <<"R", " ", "P">>, "first"),
     ThemeFile(<<"r", "-", "p">>, TRUE, TRUE, <<"r", "-", "p">>, TRUE, <<"R", "P">>, "second"),
     ThemeFile(<<"r", "-", "p">>, TRUE, TRUE, <<"r", "_", "p">>, FALSE, <<>>, "first"),
     ThemeFile(<<"n">>, TRUE, FALSE, <<>>, FALSE, <<>>, "first"),
     ThemeFile(<<"n">>, FALSE, FALSE, <<>>, FALSE, <<>>, "first")}

\* every path a run for one of the themes can write
OutputPaths ==
    UNION {DOMAIN generated_files(t) \cup {overrides_path(slug_to_module(slug_of(t)))} :
              t \in {u \in ThemeFiles : u.is_dict}}

OverridesPaths == {overrides_path(slug_to_module(slug_of(t))) : t \in {u \in ThemeFiles : u.is_dict}}

\* the files the user edits or removes between runs
UserPaths == OverridesPaths \cup {<<"lua", <<"r", "_", "p">>, "palette.lua">>}

UserText == [kind |-> "user customizations"]

InitColors ==
    /\ fn_arg = [p \in OutputPaths |-> NoFile]
    /\ fn_pc = "idle"
    /\ fn_res = <<>>
    /\ GenIdle
    /\ BatchIdle
    /\ ConcIdle
    /\ NeighborIdle

\* python neovim_generator.py <theme_dir>
GenerateColorscheme(theme_file) ==
    /\ fn_res' = [theme |-> theme_file, before |-> fn_arg,
                  run |-> generate_colorscheme(theme_file, fn_arg)]
    /\ fn_arg' = fn_res'.run.output_dir
    /\ fn_pc' = "ran"
    /\ UNCHANGED <<genVars, batchVars, concVars, nnVars>>

\* the user writes their own text to a file of the output directory
UserEdits(p) ==
    /\ fn_arg[p] # UserText
    /\ fn_arg' = [fn_arg EXCEPT ![p] = UserText]
    /\ fn_pc' = "edited"
    /\ UNCHANGED <<fn_res, genVars, batchVars, concVars, nnVars>>

\* the user removes a file of the output directory
UserRemoves(p) ==
    /\ fn_arg[p] # NoFile
    /\ fn_arg' = [fn_arg EXCEPT ![p] = NoFile]
    /\ fn_pc' = "edited"
    /\ UNCHANGED <<fn_res, genVars, batchVars, concVars, nnVars>>

NextColors ==
    \/ \E t \in ThemeFiles : GenerateColorscheme(t)
    \/ \E p \in UserPaths : UserEdits(p)
    \/ \E p \in UserPaths : UserRemoves(p)

SpecColors == InitColors /\ [][NextColors]_vars

(***************************************************************************)
(* Properties of the batch tool (SpecBatch)                                *)
(***************************************************************************)
\* what a theme.yml on disk holds
StoredTag(file) ==
    IF "extended_source" \in DOMAIN file.val THEN file.val["extended_source"] ELSE None

StoredExtended(file) ==
    IF "extended" \in DOMAIN file.val THEN file.val["extended"] ELSE EmptyDict

StoredHasBase16(file) == "base16" \in DOMAIN file.val

InRun == pc \in {"loop", "done", "aborted"}

GenerateMode == ~args.mark_existing /\ ~args.regenerate
RegenerateMode == ~args.mark_existing /\ args.regenerate

\* C1: in a run in generate or regenerate mode, dry-run or not, a theme
\* whose extended_source is 'plugin' is never opened for writing and its
\* file stays what it was when the run started.
C1_PluginNeverWritten ==
    (InRun /\ ~args.mark_existing) =>
        \A i \in ThemeIds :
            StoredTag(before[i]) = "plugin" =>
                corpus[i] = before[i] /\ i \notin writes

\* a finished non-dry-run generate or regenerate run that wrote some theme
\* and left alone a plugin-tagged theme that has a palette but no extended
\* section with diagnostic_error
C1_Witness ==
    /\ pc = "done"
    /\ ~args.mark_existing
    /\ ~args.dry_run
    /\ writes # {}
    /\ stats.skipped_plugin > 0
    /\ \E i \in ThemeIds :
          /\ StoredTag(before[i]) = "plugin"
          /\ StoredHasBase16(before[i])
          /\ "diagnostic_error" \notin DOMAIN StoredExtended(before[i])
          /\ corpus[i] = before[i]

\* C2 as stated: one non-dry-run generate run leaves the plugin themes
\* unchanged and writes every theme tagged generated or untagged, and no
\* other.
C2_GenerateWritesAllOthers ==
    (pc = "done" /\ GenerateMode /\ ~args.dry_run) =>
        /\ \A i \in ThemeIds :
              StoredTag(before[i]) = "plugin" => corpus[i] = before[i]
        /\ writes = {i \in ThemeIds : before[i].exists
                                      /\ StoredTag(before[i]) \in {None, "generated"}}

\* C2 amended: one non-dry-run generate run leaves the plugin themes
\* unchanged and writes exactly the themes, tagged generated or untagged,
\* that have a base16 palette and no extended section holding
\* diagnostic_error; each of these ends tagged generated with the palette
\* generated from its base16, and every other file is left as it was.
C2_GenerateWritesThemesLackingExtended ==
    (pc = "done" /\ GenerateMode /\ ~args.dry_run) =>
        /\ \A i \in ThemeIds :
              StoredTag(before[i]) = "plugin" => corpus[i] = before[i]
        /\ writes = {i \in ThemeIds :
                        /\ StoredHasBase16(before[i])
                        /\ StoredTag(before[i]) \in {None, "generated"}
                        /\ "diagnostic_error" \notin DOMAIN StoredExtended(before[i])}
        /\ \A i \in writes :
              /\ StoredTag(corpus[i]) = "generated"
              /\ StoredExtended(corpus[i]) = generate_extended(before[i].val["base16"])
        /\ \A i \in ThemeIds \ writes : corpus[i] = before[i]

\* a finished non-dry-run generate run that wrote one theme and did not
\* write another theme that is untagged or tagged generated
C2_Witness ==
    /\ pc = "done"
    /\ GenerateMode
    /\ ~args.dry_run
    /\ \E i \in writes : StoredTag(corpus[i]) = "generated"
    /\ \E j \in ThemeIds \ writes :
          /\ StoredHasBase16(before[j])
          /\ StoredTag(before[j]) \in {None, "generated"}
          /\ corpus[j] = before[j]

\* C3: over the runs, a theme's tag changes only from absent to plugin (by
\* mark-existing, the theme having an extended section) or from absent to
\* generated (by generate or regenerate, the theme having no extended
\* section); a plugin theme stays plugin with its extended section
\* unchanged, and a generated tag never becomes plugin.
C3_TagTransitions ==
    InRun =>
        \A i \in ThemeIds :
            /\ StoredTag(corpus[i]) # StoredTag(before[i]) =>
                  \/ /\ StoredTag(before[i]) = None
                     /\ StoredTag(corpus[i]) = "plugin"
                     /\ args.mark_existing
                     /\ DOMAIN StoredExtended(before[i]) # {}
                  \/ /\ StoredTag(before[i]) = None
                     /\ StoredTag(corpus[i]) = "generated"
                     /\ ~args.mark_existing
                     /\ DOMAIN StoredExtended(before[i]) = {}
            /\ StoredTag(before[i]) = "plugin" =>
                  /\ StoredTag(corpus[i]) = "plugin"
                  /\ StoredExtended(corpus[i]) = StoredExtended(before[i])
            /\ StoredTag(before[i]) = "generated" => StoredTag(corpus[i]) # "plugin"

\* C4: a run with the dry-run flag opens no file for writing and leaves
\* every file as it was, in every mode, and the counters it reports are
\* those the same command line without dry-run reports on the same corpus.
C4_DryRunWritesNothingSameCounts ==
    /\ (InRun /\ args.dry_run) => (corpus = before /\ writes = {})
    /\ (pc = "done" /\ args.dry_run) =>
          /\ ~main(before, [args EXCEPT !.dry_run = FALSE]).aborted
          /\ stats = main(before, [args EXCEPT !.dry_run = FALSE]).stats

\* a finished dry run that counted a theme, on a corpus the same command
\* line without dry-run would have changed
C4_Witness ==
    /\ pc = "done"
    /\ args.dry_run
    /\ stats # ZeroStats
    /\ stats.generated + stats.regenerated + stats.marked_plugin > 0
    /\ main(before, [args EXCEPT !.dry_run = FALSE]).corpus # before
    /\ corpus = before

\* C5: in generate and regenerate mode a theme with a non-empty extended
\* section and no extended_source is skipped, and generate writes only
\* themes whose extended section is missing or empty.
C5_UnmarkedExtendedSkipped ==
    (InRun /\ ~args.mark_existing) =>
        /\ \A i \in ThemeIds :
              (DOMAIN StoredExtended(before[i]) # {} /\ StoredTag(before[i]) = None)
                  => (corpus[i] = before[i] /\ i \notin writes)
        /\ GenerateMode =>
              \A i \in writes : DOMAIN StoredExtended(before[i]) = {}

\* C6: after a non-dry-run regenerate run every theme that was tagged
\* generated and has a base16 palette was written, holds the extended
\* palette generated from its own base16, and is still tagged generated.
C6_RegenerateRecomputesGenerated ==
    (pc = "done" /\ RegenerateMode /\ ~args.dry_run) =>
        \A i \in ThemeIds :
            (StoredTag(before[i]) = "generated" /\ StoredHasBase16(before[i])) =>
                /\ i \in writes
                /\ StoredHasBase16(corpus[i])
                /\ corpus[i].val["base16"] = before[i].val["base16"]
                /\ StoredExtended(corpus[i]) = generate_extended(corpus[i].val["base16"])
                /\ StoredTag(corpus[i]) = "generated"

\* a finished non-dry-run regenerate run over a generated-tagged theme
\* whose extended section was not the generated one
C6_Witness ==
    /\ pc = "done"
    /\ RegenerateMode
    /\ ~args.dry_run
    /\ stats.regenerated > 0
    /\ \E i \in ThemeIds :
          /\ StoredTag(before[i]) = "generated"
          /\ StoredHasBase16(before[i])
          /\ StoredExtended(before[i]) = HandExtended
          /\ StoredExtended(corpus[i]) # HandExtended
          /\ StoredExtended(corpus[i]) = generate_extended(before[i].val["base16"])

\* a theme.yml without a base16 section
LacksBase16(file) == file.exists /\ ~StoredHasBase16(file)
HasPaletteOrNoFile(file) == ~LacksBase16(file)

ValidPalette(base16) ==
    /\ DOMAIN base16 = Slots
    /\ \A k \in Slots :
          /\ Len(base16[k]) = 7
          /\ base16[k][1] = "#"
          /\ \A i \in 2..7 : is_hex_digit(base16[k][i])

\* C8 as stated: for every valid palette the four universal fields of the
\* returned palette are the strings stored in the slots base08 and base0B:
\* diagnostic_error = base08, diagnostic_ok = base0B, git_add = base0B,
\* git_delete = base08.
C8_UniversalEqualSlotString ==
    (gen_pc = "returned" /\ ValidPalette(gen_in)) =>
        /\ gen_out["diagnostic_error"] = gen_in["base08"]
        /\ gen_out["diagnostic_ok"] = gen_in["base0B"]
        /\ gen_out["git_add"] = gen_in["base0B"]
        /\ gen_out["git_delete"] = gen_in["base08"]

\* C8 amended: for every valid palette the four universal fields are the
\* lower-cased strings of base08 and base0B (the same RGB color; the same
\* string only when the slot is spelled in lower case).
C8_UniversalEqualLoweredSlot ==
    (gen_pc = "returned" /\ ValidPalette(gen_in)) =>
        /\ gen_out["diagnostic_error"] = lower(gen_in["base08"])
        /\ gen_out["diagnostic_ok"] = lower(gen_in["base0B"])
        /\ gen_out["git_add"] = lower(gen_in["base0B"])
        /\ gen_out["git_delete"] = lower(gen_in["base08"])
        /\ hex_to_rgb(gen_out["diagnostic_error"]) = hex_to_rgb(gen_in["base08"])
        /\ hex_to_rgb(gen_out["diagnostic_ok"]) = hex_to_rgb(gen_in["base0B"])

\* generate_extended has returned for a valid palette whose base08 and
\* base0B are spelled in upper case
C8_Witness ==
    /\ gen_pc = "returned"
    /\ ValidPalette(gen_in)
    /\ gen_in["base08"] # lower(gen_in["base08"])
    /\ gen_in["base0B"] # lower(gen_in["base0B"])
    /\ gen_out["git_delete"] = lower(gen_in["base08"])

\* base0B and base0C are the same RGB color
SameRGB_0B_0C(base16) ==
    hex_to_rgb(slot_color(base16, "base0B")) = hex_to_rgb(slot_color(base16, "base0C"))

\* C10: for a palette whose base0B and base0C are RGB-identical, every rule
\* keyed on dist_0B_0C takes its below-threshold branch: diagnostic_warning
\* reads base0A, diagnostic_hint base0C, syntax_string base0B,
\* syntax_keyword base0E and git_change base0A.
C10_ZeroDistanceBranches ==
    (gen_pc = "returned" /\ SameRGB_0B_0C(gen_in)) =>
        LET feat == extract_features(gen_in) IN
        /\ feat.dist_0B_0C = 0
        /\ rule_slot("diagnostic_warning", feat) = "base0A"
        /\ rule_slot("diagnostic_hint", feat) = "base0C"
        /\ rule_slot("syntax_string", feat) = "base0B"
        /\ rule_slot("syntax_keyword", feat) = "base0E"
        /\ rule_slot("git_change", feat) = "base0A"
        /\ gen_out["diagnostic_warning"] = get(gen_in, "base0A")
        /\ gen_out["diagnostic_hint"] = get(gen_in, "base0C")
        /\ gen_out["syntax_string"] = get(gen_in, "base0B")
        /\ gen_out["syntax_keyword"] = get(gen_in, "base0E")
        /\ gen_out["git_change"] = get(gen_in, "base0A")

\* generate_extended has returned for a palette whose base0B and base0C are
\* the same color in different spellings
C10_Witness ==
    /\ gen_pc = "returned"
    /\ SameRGB_0B_0C(gen_in)
    /\ slot_color(gen_in, "base0B") # slot_color(gen_in, "base0C")
    /\ gen_out["diagnostic_hint"] = get(gen_in, "base0C")
    /\ gen_out["diagnostic_hint"] # get(gen_in, "base0E")

(***************************************************************************)
(* Properties of concurrent calls (SpecConc)                               *)
(***************************************************************************)
\* C9: two calls of generate on the same palette return the same extended
\* palette, whatever calls came before or run interleaved with them: every
\* completed call returned the value that its own argument determines, and
\* two calls about to return for the same argument hold the same dict.
C9_Deterministic ==
    /\ \A r1, r2 \in returned :
          r1.base16 = r2.base16 => r1.extended = r2.extended
    /\ \A r \in returned : r.extended = generate_extended(r.base16)
    /\ \A c1, c2 \in Callers :
          (c_pc[c1] = "return" /\ c_pc[c2] = "return" /\ c_arg[c1] = c_arg[c2])
              => c_ext[c1] = c_ext[c2]

\* a call on one palette has completed, and a second call on the same
\* palette is about to return while another caller is half-way through a
\* call on a different palette
C9_Witness ==
    \E c1, c2 \in Callers :
        /\ c_pc[c1] = "return"
        /\ c_pc[c2] \in {"diagnostic", "syntax", "ui", "git"}
        /\ c_arg[c1] # c_arg[c2]
        /\ \E r \in returned : r.base16 = c_arg[c1] /\ r.extended = c_ext[c1]
        /\ \E r \in returned : r.base16 = c_arg[c2]

(***************************************************************************)
(* Properties of the nearest-neighbor harness (SpecNeighbor)               *)
(***************************************************************************)
\* the test theme of log entry k, as loaded
TestThemeOf(k) == nn_themes[CHOOSE t \in 1..Len(nn_themes) : nn_themes[t].name = nn_log[k].test]

\* the neighbor search of the current iteration has ended with a neighbor
Searching == nn_pc \in {"learn", "apply", "compare"}

\* C11: in the leave-one-out search the neighbor selected for a test theme
\* is never the test theme itself and never a theme of
\* EXCLUDE_AS_NEIGHBORS, both while the iteration runs and in what it
\* leaves behind.
C11_NeighborNeitherSelfNorDenied ==
    /\ \A k \in 1..Len(nn_log) :
          nn_log[k].neighbor # None =>
              /\ nn_log[k].neighbor # nn_log[k].test
              /\ nn_log[k].neighbor \notin EXCLUDE_AS_NEIGHBORS
    /\ Searching =>
          /\ nn_locals.best.neighbor \in 1..Len(nn_themes)
          /\ nn_locals.best.neighbor # nn_i
          /\ nn_themes[nn_locals.best.neighbor].name \notin EXCLUDE_AS_NEIGHBORS

\* a test theme got a neighbor at a distance above zero although a
\* deny-listed theme with the very same palette was in the training set,
\* and a deny-listed theme was itself tested and got a neighbor
C11_Witness ==
    /\ \E k \in 1..Len(nn_log) :
          /\ nn_log[k].neighbor # None
          /\ nn_log[k].distance > 0
          /\ \E d \in 1..Len(nn_themes) :
                /\ nn_themes[d].name \in EXCLUDE_AS_NEIGHBORS
                /\ nn_themes[d].name # nn_log[k].test
                /\ get_base16(nn_themes[d].theme) = get_base16(TestThemeOf(k).theme)
    /\ \E k \in 1..Len(nn_log) :
          /\ nn_log[k].test \in EXCLUDE_AS_NEIGHBORS
          /\ nn_log[k].neighbor # None

\* the themes eligible as neighbors of test theme t
Eligible(t) ==
    {n \in 1..Len(nn_themes) :
        /\ n # t
        /\ nn_themes[n].name \notin EXCLUDE_AS_NEIGHBORS}

IndexOfTest(k) == CHOOSE t \in 1..Len(nn_themes) : nn_themes[t].name = nn_log[k].test

NeighborThemeOf(k) == nn_themes[nn_log[k].neighbor_index]

\* C12: a test theme without an eligible neighbor is skipped and reported
\* (no neighbor, no prediction, nothing added to the totals), and the run
\* ends normally with its summary on every corpus, also on one where no
\* theme is graded.
C12_NoNeighborSkippedRunCompletes ==
    /\ \A k \in 1..Len(nn_log) :
          Eligible(IndexOfTest(k)) = {} =>
              /\ nn_log[k].neighbor = None
              /\ nn_log[k].predicted = EmptyDict
              /\ nn_log[k].results = NoResults
    /\ nn_pc # "crashed"

\* C13: the neighbor chosen for a test theme is an eligible theme at the
\* least palette_distance from it: no eligible theme is strictly closer,
\* and every eligible theme that comes before the chosen one in corpus
\* order is strictly farther.  A theme gets no neighbor only when none is
\* eligible.
C13_NeighborMinimisesPaletteDistance ==
    \A k \in 1..Len(nn_log) :
        /\ nn_log[k].neighbor = None <=> Eligible(IndexOfTest(k)) = {}
        /\ nn_log[k].neighbor # None =>
              /\ nn_log[k].neighbor_index \in Eligible(IndexOfTest(k))
              /\ nn_log[k].distance =
                    palette_distance(get_base16(TestThemeOf(k).theme),
                                     get_base16(NeighborThemeOf(k).theme))
              /\ \A m \in Eligible(IndexOfTest(k)) :
                    /\ palette_distance(get_base16(TestThemeOf(k).theme),
                                        get_base16(nn_themes[m].theme))
                          >= nn_log[k].distance
                    /\ m < nn_log[k].neighbor_index =>
                          palette_distance(get_base16(TestThemeOf(k).theme),
                                           get_base16(nn_themes[m].theme))
                              > nn_log[k].distance

\* one test theme had two eligible themes at the same least distance and
\* got the first of them, and another test theme got a neighbor that is
\* not the first eligible theme, an earlier one being farther away
C13_Witness ==
    /\ \E k \in 1..Len(nn_log) :
          /\ nn_log[k].neighbor # None
          /\ \E m \in Eligible(IndexOfTest(k)) :
                /\ m > nn_log[k].neighbor_index
                /\ palette_distance(get_base16(TestThemeOf(k).theme),
                                    get_base16(nn_themes[m].theme))
                      = nn_log[k].distance
    /\ \E k \in 1..Len(nn_log) :
          /\ nn_log[k].neighbor # None
          /\ nn_log[k].distance > 0
          /\ \E m \in Eligible(IndexOfTest(k)) : m < nn_log[k].neighbor_index

\* C14: every field of the prediction holds the color of the test theme's
\* own slot that the mapping learned from the neighbor names (its string in
\* lower case), a mapped field is predicted exactly when the test palette
\* has the slot, and the mapping applied is the one learned from the
\* neighbor's palette and extended palette.
C14_PredictionFromTargetSlots ==
    /\ nn_pc = "apply" =>
          nn_locals.mapping =
              learn_mapping(get_base16(nn_themes[nn_locals.best.neighbor].theme),
                            get_extended(nn_themes[nn_locals.best.neighbor].theme))
    /\ nn_pc = "compare" =>
          /\ DOMAIN nn_locals.predicted =
                {f \in DOMAIN nn_locals.mapping :
                    nn_locals.mapping[f] \in DOMAIN get_base16(nn_themes[nn_i].theme)}
          /\ \A f \in DOMAIN nn_locals.predicted :
                nn_locals.predicted[f] =
                    lower(get_base16(nn_themes[nn_i].theme)[nn_locals.mapping[f]])
    /\ \A k \in 1..Len(nn_log) :
          nn_log[k].neighbor # None =>
              /\ DOMAIN nn_log[k].predicted =
                    {f \in DOMAIN nn_log[k].mapping :
                        nn_log[k].mapping[f] \in DOMAIN get_base16(TestThemeOf(k).theme)}
              /\ \A f \in DOMAIN nn_log[k].predicted :
                    /\ nn_log[k].predicted[f] =
                          lower(get_base16(TestThemeOf(k).theme)[nn_log[k].mapping[f]])
                    /\ hex_to_rgb(nn_log[k].predicted[f]) =
                          hex_to_rgb(get_base16(TestThemeOf(k).theme)[nn_log[k].mapping[f]])

\* a prediction with a field whose color is neither the neighbor's color in
\* the mapped slot nor the neighbor's color for the field, and a prediction
\* that leaves out a mapped field because the test palette lacks the slot
C14_Witness ==
    /\ \E k \in 1..Len(nn_log) :
          /\ nn_log[k].neighbor # None
          /\ \E f \in DOMAIN nn_log[k].predicted :
                /\ hex_to_rgb(nn_log[k].predicted[f]) #
                      hex_to_rgb(slot_color(get_base16(NeighborThemeOf(k).theme),
                                            nn_log[k].mapping[f]))
                /\ hex_to_rgb(nn_log[k].predicted[f]) #
                      hex_to_rgb(get_extended(NeighborThemeOf(k).theme)[f])
    /\ \E k \in 1..Len(nn_log) :
          /\ nn_log[k].neighbor # None
          /\ \E f \in DOMAIN nn_log[k].mapping : f \notin DOMAIN nn_log[k].predicted

(***************************************************************************)
(* Properties of the two slot-matching steps (SpecMatch)                   *)
(***************************************************************************)
\* the least squared distance of the color of the call to a slot of its palette
ProbeDistSq ==
    best_dist_sq(fn_arg.ext_color, fn_arg.base16)

LearnAccepts == "probe" \in DOMAIN fn_res.mapping

MatchAccepts == fn_res.match # None

\* C15 as stated: for the same ground-truth color and palette, learn_mapping
\* and find_base16_match pick the same closest slot and both accept or both
\* exclude the field, the field being excluded when the least distance
\* exceeds 50.
C15_SameThresholdLogic ==
    fn_pc = "returned" =>
        /\ LearnAccepts <=> MatchAccepts
        /\ LearnAccepts => fn_res.mapping["probe"] = fn_res.match
        /\ ~MatchAccepts <=> ProbeDistSq > MatchThreshold * MatchThreshold

\* C15 amended: both steps find the same closest slot (the first slot of
\* the key list at the least distance), but learn_mapping accepts the field
\* at a distance below 100 and find_base16_match at a distance below 50: a
\* field find_base16_match accepts is accepted by learn_mapping with the
\* same slot, and at a distance from 50 up to but excluding 100 only
\* learn_mapping accepts.
C15_SameSlotDifferentThresholds ==
    fn_pc = "returned" =>
        /\ LearnAccepts <=> ProbeDistSq < MappingThreshold * MappingThreshold
        /\ MatchAccepts <=> ProbeDistSq < MatchThreshold * MatchThreshold
        /\ MatchAccepts => (LearnAccepts /\ fn_res.mapping["probe"] = fn_res.match)
        /\ LearnAccepts =>
              fn_res.mapping["probe"] = find_base16_match_any(fn_arg.ext_color, fn_arg.base16)
        /\ (LearnAccepts /\ ~MatchAccepts) <=>
              /\ ProbeDistSq >= MatchThreshold * MatchThreshold
              /\ ProbeDistSq < MappingThreshold * MappingThreshold

\* both steps were called on a color exactly 50 away from its closest slot:
\* learn_mapping accepted it, find_base16_match did not
C15_Witness ==
    /\ fn_pc = "returned"
    /\ ProbeDistSq = MatchThreshold * MatchThreshold
    /\ LearnAccepts
    /\ ~MatchAccepts

(***************************************************************************)
(* Properties of compare_palettes (SpecCompare)                            *)
(***************************************************************************)
\* the fields of the compared field set present in both palettes
BothHave == {f \in fn_arg.fields : f \in DOMAIN fn_arg.predicted /\ f \in DOMAIN fn_arg.actual}

\* the squared RGB distance of the two colors of a field
FieldDistSq(f) ==
    sum_sq(hex_to_rgb(fn_arg.predicted[f]), hex_to_rgb(fn_arg.actual[f]))

\* the number of entries of a bucket filed for a field
Filed(bucket, f) ==
    Cardinality({i \in 1..Len(fn_res[bucket]) : fn_res[bucket][i].field = f})

\* C16: compare_palettes puts every field of the compared field set that
\* both palettes have into exactly one bucket, by its RGB distance d: exact
\* when d < 1, close when 1 <= d < 10, different when d >= 10; a field
\* missing from either palette or outside the set is in no bucket, and
\* exact + close + different is the number of compared fields.
C16_EveryComparedFieldInOneBucket ==
    fn_pc = "returned" =>
        /\ \A f \in BothHave :
              /\ Filed("exact", f) = (IF FieldDistSq(f) < 1 THEN 1 ELSE 0)
              /\ Filed("close", f) =
                    (IF FieldDistSq(f) >= 1 /\ FieldDistSq(f) < 100 THEN 1 ELSE 0)
              /\ Filed("different", f) = (IF FieldDistSq(f) >= 100 THEN 1 ELSE 0)
        /\ \A bucket \in {"exact", "close", "different"} :
              \A i \in 1..Len(fn_res[bucket]) : fn_res[bucket][i].field \in BothHave
        /\ Len(fn_res.exact) + Len(fn_res.close) + Len(fn_res.different)
              = Cardinality(BothHave)

\* a call returned with a field in each of two buckets while a third field
\* of the set was missing from the actual palette
C16_Witness ==
    /\ fn_pc = "returned"
    /\ Len(fn_res.close) = 1
    /\ Len(fn_res.different) = 1
    /\ fn_res.different[1].distance = 1000
    /\ \E f \in fn_arg.fields : f \in DOMAIN fn_arg.predicted /\ f \notin DOMAIN fn_arg.actual

(***************************************************************************)
(* Properties of the miss report (SpecNeighbor)                            *)
(***************************************************************************)
\* the number of graded themes whose prediction for f was bucketed different
DifferentThemes(f) ==
    Cardinality({k \in 1..Len(nn_log) :
                    \E i \in 1..Len(nn_log[k].results.different) :
                        nn_log[k].results.different[i].field = f})

\* the miss count the report gives for f: its line, or none
ReportedCount(f) ==
    IF \E k \in 1..Len(nn_report) : nn_report[k].field = f
    THEN nn_report[CHOOSE k \in 1..Len(nn_report) : nn_report[k].field = f].count
    ELSE 0

\* C17: when the run has ended, the miss count reported for every field is
\* the number of graded themes whose prediction for that field was bucketed
\* 'different'.
C17_MissCountIsDifferentThemes ==
    nn_pc = "done" =>
        \A k \in 1..Len(FieldOrder) :
            ReportedCount(FieldOrder[k]) = DifferentThemes(FieldOrder[k])

(***************************************************************************)
(* Properties of hex_to_rgb (SpecHex)                                      *)
(***************************************************************************)
\* the input without its optional leading '#'
AfterHash(s) == IF s # <<>> /\ s[1] = "#" THEN Tail(s) ELSE s

\* exactly six hexadecimal digits after the optional '#'
WellFormed(s) ==
    /\ Len(AfterHash(s)) = 6
    /\ \A i \in 1..6 : AfterHash(s)[i] \in
          {"0","1","2","3","4","5","6","7","8","9",
           "a","b","c","d","e","f","A","B","C","D","E","F"}

\* C18: hex_to_rgb fails on every input that, after the optional leading
\* '#', is not exactly six hexadecimal digits (a character that is no hex
\* digit, or a length other than six), and returns a triple only for
\* well-formed six-digit input.
C18_MalformedInputFails ==
    /\ fn_pc = "returned" => WellFormed(fn_arg)
    /\ fn_pc = "raised" => ~WellFormed(fn_arg)

(***************************************************************************)
(* Properties of color_distance (SpecDist)                                 *)
(***************************************************************************)
\* C19: for valid colors a and b, the distance of a color to itself is 0
\* and the distance from a to b is the distance from b to a, the distance
\* being the Euclidean distance over the three channels.
C19_DistanceZeroOnSelfAndSymmetric ==
    fn_pc = "returned" =>
        /\ fn_res.aa = 0
        /\ fn_res.bb = 0
        /\ fn_res.ab = fn_res.ba
        /\ fn_res.ab * fn_res.ab <= 10000 * sum_sq(hex_to_rgb(fn_arg.a), hex_to_rgb(fn_arg.b))
        /\ (fn_res.ab + 1) * (fn_res.ab + 1)
              > 10000 * sum_sq(hex_to_rgb(fn_arg.a), hex_to_rgb(fn_arg.b))

\* the distance of two colors that differ in their red and blue channels
\* was computed in both orders
C19_Witness ==
    /\ fn_pc = "returned"
    /\ hex_to_rgb(fn_arg.a)[1] < hex_to_rgb(fn_arg.b)[1]
    /\ hex_to_rgb(fn_arg.a)[3] > hex_to_rgb(fn_arg.b)[3]
    /\ fn_res.ab > 0
    /\ fn_res.ba > 0

(***************************************************************************)
(* Properties of the round trip (SpecRoundTrip)                            *)
(***************************************************************************)
\* C20: hex_to_rgb(rgb_to_hex(r, g, b)) is (r, g, b) for every triple of
\* channels in 0..255: parsing the formatted string does not fail and
\* gives the triple back.
C20_RoundTrip ==
    /\ fn_pc # "raised"
    /\ fn_pc = "returned" => fn_res = fn_arg

\* a triple with a one-digit channel, a two-digit channel and 255 went
\* through rgb_to_hex and hex_to_rgb
C20_Witness ==
    /\ fn_pc = "returned"
    /\ fn_arg = <<9, 160, 255>>
    /\ fn_res = <<9, 160, 255>>

(***************************************************************************)
(* Further properties of generate_extended (SpecGen)                       *)
(***************************************************************************)
\* the standard fields by the group their name begins with
DiagnosticFieldNames ==
    {"diagnostic_error", "diagnostic_warning", "diagnostic_info", "diagnostic_hint",
     "diagnostic_ok"}

SyntaxFieldNames ==
    {"syntax_comment", "syntax_string", "syntax_function", "syntax_keyword",
     "syntax_type", "syntax_number", "syntax_constant", "syntax_operator",
     "syntax_variable", "syntax_parameter", "syntax_preproc", "syntax_special"}

UiFieldNames ==
    {"ui_accent", "ui_border", "ui_selection", "ui_float_bg", "ui_cursor_line"}

GitFieldNames == {"git_add", "git_change", "git_delete"}

\* the colors the input palette offers: its own slots, lower-cased, and
\* '#000000' when a slot is missing
OfferedColors(base16) ==
    {lower(base16[k]) : k \in DOMAIN base16}
        \cup (IF Slots \subseteq DOMAIN base16 THEN {}
              ELSE {<<"#","0","0","0","0","0","0">>})

\* C23: generate returns a complete extended palette for any palette: its
\* keys are exactly the 25 standard fields (5 diagnostic, 12 syntax, 5 ui,
\* 3 git) and every value is the lower-cased color of one of the input
\* palette's own slots, a missing slot counting as '#000000'.
C23_CompletePaletteOfOwnSlots ==
    gen_pc = "returned" =>
        /\ DOMAIN gen_out = STANDARD_FIELDS
        /\ Cardinality(DOMAIN gen_out) = 25
        /\ Cardinality(DOMAIN gen_out \cap DiagnosticFieldNames) = 5
        /\ Cardinality(DOMAIN gen_out \cap SyntaxFieldNames) = 12
        /\ Cardinality(DOMAIN gen_out \cap UiFieldNames) = 5
        /\ Cardinality(DOMAIN gen_out \cap GitFieldNames) = 3
        /\ \A f \in DOMAIN gen_out : gen_out[f] \in OfferedColors(gen_in)

\* generate_extended has returned for a palette without base0C and base0E:
\* the fields reading them hold '#000000', the others the palette's colors
C23_Witness ==
    /\ gen_pc = "returned"
    /\ "base0C" \notin DOMAIN gen_in
    /\ "base0B" \in DOMAIN gen_in
    /\ gen_out["syntax_special"] = <<"#","0","0","0","0","0","0">>
    /\ gen_out["git_add"] = lower(gen_in["base0B"])
    /\ Cardinality(DOMAIN gen_out) = 25

(***************************************************************************)
(* Properties of the two implementations of the frozen rules (SpecAgree)   *)
(***************************************************************************)
\* C24: generate_extended of the batch script and generate_extended_rules
\* of the validation script agree on every palette: they fail on the same
\* palettes and otherwise return the same fields with the same colors.
C24_ImplementationsAgree ==
    fn_pc = "returned" =>
        /\ fn_res.batch.raised = fn_res.rules.raised
        /\ DOMAIN fn_res.batch.extended = DOMAIN fn_res.rules.extended
        /\ \A f \in DOMAIN fn_res.batch.extended :
              fn_res.batch.extended[f] = fn_res.rules.extended[f]

\* both were called on a palette whose base08 saturation lies between the
\* two saturation thresholds 69.6 and 76.1, and returned 25 fields
C24_Witness ==
    /\ fn_pc = "returned"
    /\ ~fn_res.rules.raised
    /\ Cardinality(DOMAIN fn_res.rules.extended) = 25
    /\ FracGt(hex_to_hsl(slot_color(fn_arg, "base08")).sat, 696)
    /\ ~FracGt(hex_to_hsl(slot_color(fn_arg, "base08")).sat, 761)
    /\ fn_res.rules.extended["syntax_type"] = lower(slot_color(fn_arg, "base0A"))
    /\ fn_res.batch.extended["diagnostic_info"] = lower(slot_color(fn_arg, "base0C"))

\* the slot every field reads in the batch script and in the validation
\* script, for the palette of the call
BatchSlots == [f \in GeneratedFields |-> rule_slot(f, extract_features(fn_arg))]

ValidationSlots == [f \in RulesFields |-> rules_slot(f, extract_features_rules(fn_arg))]

\* the couplings of C25 for one assignment of slots to fields
Coupled(s) ==
    /\ (s["diagnostic_hint"] = "base0C") <=> (s["syntax_string"] = "base0B")
    /\ (s["syntax_string"] = "base0B") <=> (s["syntax_keyword"] = "base0E")
    /\ (s["syntax_comment"] = "base03") <=> (s["syntax_function"] = "base0D")
    /\ (s["syntax_type"] = "base0A") <=> (s["ui_accent"] = "base0D")
    /\ (s["ui_accent"] = "base0D") <=> (s["ui_border"] = "base02")
    /\ (s["diagnostic_info"] = "base0D") => (s["syntax_type"] = "base0A")
    /\ (s["git_change"] = "base09") =>
          (s["diagnostic_hint"] = "base0E" /\ s["diagnostic_warning"] = "base09")
    /\ (s["diagnostic_warning"] = "base0A") =>
          (s["diagnostic_hint"] = "base0C" /\ s["git_change"] = "base0A")
    /\ (s["syntax_number"] = "base09") => (s["syntax_constant"] = "base09")

\* C25: the branch choices of generate are coupled for every palette, in
\* both implementations: diagnostic_hint takes base0C iff syntax_string
\* takes base0B iff syntax_keyword takes base0E; syntax_comment takes base03
\* iff syntax_function takes base0D; syntax_type takes base0A iff ui_accent
\* takes base0D iff ui_border takes base02; diagnostic_info = base0D implies
\* syntax_type = base0A; git_change = base09 implies diagnostic_hint =
\* base0E and diagnostic_warning = base09; diagnostic_warning = base0A
\* implies diagnostic_hint = base0C and git_change = base0A; syntax_number =
\* base09 implies syntax_constant = base09.  The returned colors are those
\* of the slots taken.
C25_BranchChoicesCoupled ==
    (fn_pc = "returned" /\ ~fn_res.batch.raised /\ ~fn_res.rules.raised) =>
        /\ Coupled(BatchSlots)
        /\ Coupled(ValidationSlots)
        /\ \A f \in DOMAIN fn_res.batch.extended :
              fn_res.batch.extended[f] = lower(slot_color(fn_arg, BatchSlots[f]))
        /\ \A f \in DOMAIN fn_res.rules.extended :
              fn_res.rules.extended[f] = lower(slot_color(fn_arg, ValidationSlots[f]))

\* both implementations returned for a palette on which git_change takes
\* base09 (so diagnostic_hint base0E and diagnostic_warning base09) and
\* diagnostic_info takes base0D
C25_Witness ==
    /\ fn_pc = "returned"
    /\ ~fn_res.batch.raised
    /\ BatchSlots["git_change"] = "base09"
    /\ BatchSlots["diagnostic_hint"] = "base0E"
    /\ ValidationSlots["diagnostic_info"] = "base0D"
    /\ fn_res.batch.extended["git_change"] = lower(slot_color(fn_arg, "base09"))

(***************************************************************************)
(* Properties of generate_extended on two palettes (SpecIndep)             *)
(***************************************************************************)
\* both palettes hold the same color in every slot of a set
AgreeOn(slots) == \A k \in slots : fn_arg.first[k] = fn_arg.second[k]

\* the fields whose rule has two branches
LearnedFields ==
    {"diagnostic_warning", "diagnostic_info", "diagnostic_hint", "syntax_comment",
     "syntax_string", "syntax_function", "syntax_keyword", "syntax_type",
     "syntax_number", "syntax_constant", "ui_accent", "ui_border", "git_change"}

\* C26: the output of generate does not depend on the slots base00, base06,
\* base07 and base0F: two valid palettes that agree on the other twelve
\* slots get the same extended palette; and the branch every learned rule
\* takes depends only on base08, base0B, base0C and base0D: two valid
\* palettes that agree on these four take the same branch of every rule.
C26_UnusedSlotsDoNotMatter ==
    fn_pc = "returned" =>
        /\ AgreeOn(Slots \ {"base00", "base06", "base07", "base0F"}) =>
              fn_res.first = fn_res.second
        /\ AgreeOn({"base08", "base0B", "base0C", "base0D"}) =>
              \A f \in LearnedFields :
                  rule_slot(f, extract_features(fn_arg.first))
                      = rule_slot(f, extract_features(fn_arg.second))

\* generate_extended returned the same palette for two valid palettes that
\* differ in base00, base06, base07 and base0F
C26_Witness ==
    /\ fn_pc = "returned"
    /\ ValidPalette(fn_arg.first)
    /\ ValidPalette(fn_arg.second)
    /\ \A k \in {"base00", "base06", "base07", "base0F"} :
          hex_to_rgb(fn_arg.first[k]) # hex_to_rgb(fn_arg.second[k])
    /\ fn_res.first = fn_res.second
    /\ Cardinality(DOMAIN fn_res.second) = 25

(***************************************************************************)
(* What a write changes in a theme (SpecBatch)                             *)
(***************************************************************************)
KeySet(file) == {file.keys[j] : j \in 1..Len(file.keys)}

\* the first place of a key among the top-level keys of a file
KeyPlace(file, key) ==
    CHOOSE j \in 1..Len(file.keys) :
        file.keys[j] = key /\ \A h \in 1..(j - 1) : file.keys[h] # key

\* the keys of a file without the one at a place
WithoutPlace(file, at) ==
    SubSeq(file.keys, 1, at - 1) \o SubSeq(file.keys, at + 1, Len(file.keys))

\* a write of generate or regenerate: only extended and extended_source
\* differ, every other section keeps its value, extended_source comes
\* before extended
OnlyExtendedChanged(old, new) ==
    /\ KeySet(new) = KeySet(old) \cup {"extended", "extended_source"}
    /\ \A j, h \in 1..Len(new.keys) : new.keys[j] = new.keys[h] => j = h
    /\ DOMAIN new.val = KeySet(new)
    /\ \A k \in KeySet(old) \ {"extended", "extended_source"} : new.val[k] = old.val[k]
    /\ KeyPlace(new, "extended_source") < KeyPlace(new, "extended")
    /\ new.val["extended_source"] = "generated"
    /\ new.val["extended"] = generate_extended(old.val["base16"])

\* a write of mark-existing: the marker entry, put right before extended,
\* is all that is new
OnlyMarkerAdded(old, new) ==
    /\ \E at \in 1..(Len(new.keys) - 1) :
          /\ new.keys[at] = "extended_source"
          /\ new.keys[at + 1] = "extended"
          /\ WithoutPlace(new, at) = old.keys
    /\ DOMAIN new.val = DOMAIN old.val \cup {"extended_source"}
    /\ new.val["extended_source"] = "plugin"
    /\ \A k \in DOMAIN old.val : new.val[k] = old.val[k]
    /\ new.hand = old.hand

\* C28: a generate or regenerate write changes only the theme's extended
\* section and leaves extended_source at 'generated' (generate sets it):
\* every other top-level section, known or unknown, is saved with the value
\* it was loaded with, and extended_source is placed before extended; a
\* mark-existing write changes nothing in a theme except adding the single
\* marker entry.
C28_WritesChangeOnlyExtended ==
    InRun =>
        \A i \in writes :
            IF args.mark_existing
            THEN OnlyMarkerAdded(before[i], corpus[i])
            ELSE /\ OnlyExtendedChanged(before[i], corpus[i])
                 /\ (args.regenerate /\ StoredTag(before[i]) = "generated") =>
                        StoredTag(corpus[i]) = StoredTag(before[i])

\* a finished regenerate run rewrote a theme that has an unknown top-level
\* key in front and its extended_source after extended: the unknown section
\* kept its value and extended_source now comes first
C28_Witness ==
    /\ pc = "done"
    /\ RegenerateMode
    /\ \E i \in writes :
          /\ "custom" \in KeySet(before[i])
          /\ KeyPlace(before[i], "extended_source") > KeyPlace(before[i], "extended")
          /\ corpus[i].val["custom"] = before[i].val["custom"]
          /\ KeyPlace(corpus[i], "extended_source") < KeyPlace(corpus[i], "extended")
          /\ corpus[i].val["extended"] # before[i].val["extended"]

(***************************************************************************)
(* Properties of two runs in a row (SpecTwice)                             *)
(***************************************************************************)
\* the number of extended_source entries among the top-level keys of a file
Markers(file) ==
    Cardinality({j \in 1..Len(file.keys) : file.keys[j] = "extended_source"})

\* C27: each mode of the batch tool is idempotent: after mark-existing,
\* generate or regenerate has run twice in a row without --dry-run, every
\* theme is in the state the first run produced; the plugin marker is
\* inserted at most once per theme, the second generate writes no theme,
\* and the second regenerate rewrites the same extended content.
C27_ModesIdempotent ==
    pc = "ran_twice" =>
        /\ corpus = fn_res[1].corpus
        /\ fn_res[2].corpus = fn_res[1].corpus
        /\ \A i \in ThemeIds : Markers(corpus[i]) <= 1
        /\ args.mark_existing =>
              \A i \in ThemeIds : Markers(corpus[i]) <= Markers(fn_arg[i]) + 1
        /\ args.mark_existing => fn_res[2].writes = {}
        /\ GenerateMode => fn_res[2].writes = {}
        /\ RegenerateMode =>
              \A i \in fn_res[2].writes :
                  StoredExtended(corpus[i]) = StoredExtended(fn_res[1].corpus[i])

\* regenerate ran twice: the first run wrote a theme and changed it, the
\* second wrote it again and left it as it was
C27_Witness ==
    /\ pc = "ran_twice"
    /\ RegenerateMode
    /\ \E i \in fn_res[1].writes \cap fn_res[2].writes :
          /\ fn_res[1].corpus[i] # fn_arg[i]
          /\ corpus[i] = fn_res[1].corpus[i]

(***************************************************************************)
(* Properties of the rule learner (SpecLearn)                              *)
(***************************************************************************)
Analysed == fn_pc \in {"analysed", "compared"}

Boundaries == fn_res.boundaries

LearnChoices == {fn_arg[i].mapping : i \in 1..Len(fn_arg)}

ThemesOf(choice) == {i \in 1..Len(fn_arg) : fn_arg[i].mapping = choice}

\* one slot choice covers at least 85% of the themes of the field
OneChoiceCovers85 ==
    \E c \in LearnChoices :
        Cardinality(ThemesOf(c)) * 100 >= DominancePercent * Len(fn_arg)

\* at least 2 themes support the second most frequent choice: two choices
\* have 2 themes or more each
SecondChoiceSupported ==
    \E c \in LearnChoices : \E d \in LearnChoices \ {c} :
        /\ Cardinality(ThemesOf(c)) >= 2
        /\ Cardinality(ThemesOf(d)) >= 2

\* choice_a and choice_b are the two most frequent choices
SearchesTopTwo ==
    /\ Boundaries.searched
    /\ Boundaries.choice_a \in LearnChoices
    /\ Boundaries.choice_b \in LearnChoices \ {Boundaries.choice_a}
    /\ Cardinality(ThemesOf(Boundaries.choice_a))
           >= Cardinality(ThemesOf(Boundaries.choice_b))
    /\ \A c \in LearnChoices \ {Boundaries.choice_a, Boundaries.choice_b} :
           Cardinality(ThemesOf(Boundaries.choice_b)) >= Cardinality(ThemesOf(c))

\* C21 as stated: the learner learns no rule for a field when one slot
\* choice covers at least 85% of the themes with a slot-derived ground
\* truth, or when fewer than 2 themes support the second most frequent
\* choice; in every other case it searches a rule between the two most
\* frequent choices.
C21_SkipsDominatedOrThinFields ==
    Analysed =>
        IF OneChoiceCovers85 \/ ~SecondChoiceSupported
        THEN Boundaries.best_rule = NoRule
        ELSE SearchesTopTwo

\* C21 amended: the learner learns no rule for a field when fewer than 5
\* themes have a slot-derived ground truth for it, or when fewer than 2
\* themes support the second most frequent choice; in every other case,
\* whatever the share of the most frequent choice, it searches a rule
\* between the two most frequent choices.  The 85% test is the one of the
\* feature comparison, which leaves out a field with one choice only or
\* whose most frequent choice covers more than 85% of the themes.
C21_SkipsSmallOrThinFields ==
    /\ Analysed =>
          IF Len(fn_arg) < 5 \/ ~SecondChoiceSupported
          THEN Boundaries = NotSearched
          ELSE SearchesTopTwo
    /\ fn_pc = "compared" =>
          (fn_res.compared <=>
              /\ Cardinality(LearnChoices) >= 2
              /\ \A c \in LearnChoices :
                    Cardinality(ThemesOf(c)) * 100 <= DominancePercent * Len(fn_arg))

\* a field whose first choice covers 85% or more and whose second has two
\* themes got a rule from the learner and no feature comparison
C21_Witness ==
    /\ fn_pc = "compared"
    /\ OneChoiceCovers85
    /\ SecondChoiceSupported
    /\ Boundaries.searched
    /\ Boundaries.best_rule # NoRule
    /\ ~fn_res.compared

\* the candidates of the search: a feature, the midpoint (as line 164
\* computes it) of two consecutive distinct values observed among the
\* themes whose choice is A or B, and a direction
CandidateRules ==
    LET among == considered(fn_arg, Boundaries.choice_a, Boundaries.choice_b)
        Observed(f) == {fn_arg[i].features[f] : i \in among}
    IN  {c \in [feat : {feature_names[k] : k \in 1..Len(feature_names)},
                    thresh : GridValues, direction : {">", "<"}] :
            \E lo \in Observed(c.feat), hi \in Observed(c.feat) :
                /\ lo < hi
                /\ ~\E v \in Observed(c.feat) : lo < v /\ v < hi
                /\ c.thresh = midpoint(lo, hi)}

\* the themes whose choice is A or B that a candidate classifies correctly
CorrectOf(c) ==
    Cardinality({i \in ThemesOf(Boundaries.choice_a) :
                    IF c.direction = ">" THEN fn_arg[i].features[c.feat] > c.thresh
                    ELSE fn_arg[i].features[c.feat] < c.thresh})
    + Cardinality({i \in ThemesOf(Boundaries.choice_b) :
                    IF c.direction = ">" THEN ~(fn_arg[i].features[c.feat] > c.thresh)
                    ELSE ~(fn_arg[i].features[c.feat] < c.thresh)})

FeaturePlace(f) == CHOOSE k \in 1..Len(feature_names) : feature_names[k] = f

\* the fixed search order: feature order, ascending threshold, '>' before '<'
SearchedBefore(c, d) ==
    \/ FeaturePlace(c.feat) < FeaturePlace(d.feat)
    \/ /\ c.feat = d.feat
       /\ \/ c.thresh < d.thresh
          \/ c.thresh = d.thresh /\ c.direction = ">" /\ d.direction = "<"

\* C22: for an analysed field the recorded rule has the maximum accuracy
\* (correct predictions over the themes whose choice is A or B) among all
\* candidates of a feature, a midpoint between two consecutive distinct
\* observed values and a direction; of the candidates with that accuracy
\* the recorded one is the first in the fixed search order, so the same
\* corpus always gives the same rule.
C22_RecordedRuleIsFirstBest ==
    (Analysed /\ Boundaries.searched /\ Boundaries.best_rule # NoRule) =>
        /\ Boundaries.best_rule \in CandidateRules
        /\ Boundaries.total =
              Cardinality(ThemesOf(Boundaries.choice_a) \cup ThemesOf(Boundaries.choice_b))
        /\ Boundaries.correct = CorrectOf(Boundaries.best_rule)
        /\ \A c \in CandidateRules :
              /\ CorrectOf(c) <= Boundaries.correct
              /\ (CorrectOf(c) = Boundaries.correct /\ c # Boundaries.best_rule) =>
                     SearchedBefore(Boundaries.best_rule, c)

\* a rule was recorded although a later candidate of another feature is as
\* accurate
C22_Witness ==
    /\ Analysed
    /\ Boundaries.searched
    /\ Boundaries.best_rule # NoRule
    /\ \E c \in CandidateRules :
          /\ c.feat # Boundaries.best_rule.feat
          /\ CorrectOf(c) = Boundaries.correct
    /\ \E c \in CandidateRules :
          /\ c.feat = Boundaries.best_rule.feat
          /\ c # Boundaries.best_rule
          /\ CorrectOf(c) = Boundaries.correct

\* C29: whenever the learner records a rule for a field, the training
\* accuracy of the rule is at least 50%.
C29_RecordedAccuracyAtLeastHalf ==
    (Analysed /\ Boundaries.searched /\ Boundaries.best_rule # NoRule) =>
        2 * Boundaries.correct >= Boundaries.total

(***************************************************************************)
(* Properties of the colorscheme generator (SpecColors)                    *)
(***************************************************************************)
LastRun == fn_res.run

\* C30: across any number of colorscheme generation runs, overrides.lua is
\* written only when it does not exist yet; once it exists no later run
\* changes its content; every other generated file (init, palette,
\* highlights, colors entry point) is overwritten on each run.
C30_OverridesWrittenOnce ==
    fn_pc = "ran" =>
        /\ \A p \in OverridesPaths :
              /\ p \in LastRun.written => fn_res.before[p] = NoFile
              /\ fn_res.before[p] # NoFile => fn_arg[p] = fn_res.before[p]
        /\ ~LastRun.raised =>
              LET own == overrides_path(slug_to_module(slug_of(fn_res.theme)))
              IN  /\ fn_arg[own] # NoFile
                  /\ fn_res.before[own] = NoFile =>
                        /\ own \in LastRun.written
                        /\ fn_arg[own] = generate_overrides_lua(name_of(fn_res.theme))
                  /\ \A p \in DOMAIN generated_files(fn_res.theme) :
                        /\ p \in LastRun.written
                        /\ fn_arg[p] = generated_files(fn_res.theme)[p]
                  /\ Cardinality(DOMAIN generated_files(fn_res.theme)) = 9
        /\ \A p \in OutputPaths \ LastRun.written : fn_arg[p] = fn_res.before[p]

\* a run found the user's overrides.lua and the user's palette.lua: it kept
\* the first and replaced the second
C30_Witness ==
    /\ fn_pc = "ran"
    /\ ~LastRun.raised
    /\ LET module_name == slug_to_module(slug_of(fn_res.theme))
       IN  /\ fn_res.before[overrides_path(module_name)] = UserText
           /\ fn_arg[overrides_path(module_name)] = UserText
           /\ fn_res.before[<<"lua", module_name, "palette.lua">>] = UserText
           /\ fn_arg[<<"lua", module_name, "palette.lua">>] # UserText

====
